---- MODULE Spec2Model ----
(***************************************************************************)
(* Model of the resource librarian's storage engine:                       *)
(*   src/src/utils/resource_models.py  (record normaliser)                 *)
(*   src/src/core/embeddings.py        (embedding gateway)                 *)
(*   src/src/tools/supabase_client.py  (upsert and hybrid search)          *)
(*   src/scripts/backfill_embeddings.py                                    *)
(*   src/src/agent/graph.py            (store node, limit coercion)        *)
(*   src/src/pairing/store.py          (pairing queue and allowlist)       *)
(*                                                                         *)
(* Python strings are sequences of one-character strings.  None is the     *)
(* one-element sequence <<"None">>, a missing mapping key is               *)
(* <<"Missing">>; neither is a sequence of characters of the alphabet.     *)
(***************************************************************************)
EXTENDS Integers, Sequences, FiniteSets, TLC

VARIABLES
    store,    \* the persisted table: a sequence of rows in insertion order
    env,      \* the settings snapshot of the process (D, provider, ...)
    svc,      \* the lru_cache of get_embedding_service
    clock,    \* the store's created_at source
    calls,    \* number of engine calls made so far
    bf,       \* the backfill script's loop state
    last,     \* observation of the most recent engine call
    pcfg,     \* the PairingStore's constructor arguments: [ttl, limit]
    queue,    \* pending.json: the stored pairing requests, in file order
    allowlist,\* allowlist.json: the approved users, in file order
    ptime,    \* the value clock_fn returns
    plast,    \* observation of the most recent PairingStore call
    helper,   \* observation of the most recent helper call: [fn, arg, out]
    race,     \* two add_resource calls in flight: their payloads and positions
    bot,      \* the Telegram bot: its admin id and the messages it is answering
    web       \* observation of the most recent WhatsApp webhook request

vars == <<store, env, svc, clock, calls, bf, last, pcfg, queue, allowlist, ptime, plast, helper, race, bot, web>>

\* the state of the storage engine, of the pairing store, and of the helpers
engineVars == <<store, env, svc, clock, calls, bf, last>>
pairingVars == <<pcfg, queue, allowlist, ptime, plast>>
frontVars == <<race, bot, web>>

\* the concurrent callers, the bot and the webhook before anything reached them
NoRace == [pc |-> "none"]
NoBot == [admin |-> 0, typing |-> {}, last |-> [handler |-> "init"]]
NoWeb == [op |-> "init"]
InitFront == race = NoRace /\ bot = NoBot /\ web = NoWeb

-----------------------------------------------------------------------------
(* Bounds *)

MaxDim == 2
MaxCalls == 2
MaxLimit == 2
MaxRows == 3
MaxUsers == 2
MaxPending == 2
MaxTime == 3
MaxAdds == 3
MaxInFlight == 1

-----------------------------------------------------------------------------
(* Python values *)

None == <<"None">>
Missing == <<"Missing">>
NoneList == << <<"NoneList">> >>

\* Python truthiness of an Optional[str]
Truthy(s) == s # None /\ s # Missing /\ s # <<>>

\* str(x) of an Optional[str]
Str(s) == IF s = None THEN <<"N", "o", "n", "e">> ELSE s

IsSpace(c) == c = " "

RECURSIVE LStrip(_)
LStrip(s) ==
    IF s = <<>> THEN <<>>
    ELSE IF IsSpace(Head(s)) THEN LStrip(Tail(s)) ELSE s

RECURSIVE RStrip(_)
RStrip(s) ==
    IF s = <<>> THEN <<>>
    ELSE IF IsSpace(s[Len(s)]) THEN RStrip(SubSeq(s, 1, Len(s) - 1)) ELSE s

\* str.strip()
Strip(s) == RStrip(LStrip(s))

UpperCase ==
    <<"A", "B", "C", "D", "E", "F", "G", "H", "I", "J", "K", "L", "M",
      "N", "O", "P", "Q", "R", "S", "T", "U", "V", "W", "X", "Y", "Z">>

LowerCase ==
    <<"a", "b", "c", "d", "e", "f", "g", "h", "i", "j", "k", "l", "m",
      "n", "o", "p", "q", "r", "s", "t", "u", "v", "w", "x", "y", "z">>

LowerChar(c) ==
    IF \E i \in 1..Len(UpperCase) : UpperCase[i] = c
    THEN LowerCase[CHOOSE i \in 1..Len(UpperCase) : UpperCase[i] = c]
    ELSE c

\* str.lower()
Lower(s) == [i \in 1..Len(s) |-> LowerChar(s[i])]

Take(s, n) == IF n <= 0 THEN <<>> ELSE SubSeq(s, 1, IF n < Len(s) THEN n ELSE Len(s))

RECURSIVE Join(_, _)
Join(parts, sep) ==
    IF parts = <<>> THEN <<>>
    ELSE IF Len(parts) = 1 THEN parts[1]
    ELSE parts[1] \o sep \o Join(Tail(parts), sep)

Range(s) == {s[i] : i \in 1..Len(s)}

-----------------------------------------------------------------------------
(* Record normaliser: src/src/utils/resource_models.py *)

\* variant of the loop that appends the value as given
RECURSIVE NormaliseItemsUntrimmed(_)
NormaliseItemsUntrimmed(values) ==
    IF values = <<>> THEN <<>>
    ELSE LET text == IF Truthy(Head(values)) THEN Head(values) ELSE <<>>
         IN  (IF Strip(text) # <<>> THEN <<text>> ELSE <<>>)
             \o NormaliseItemsUntrimmed(Tail(values))
RECURSIVE NormaliseItems(_)
NormaliseItems(values) ==
    IF values = <<>> THEN <<>>
    ELSE LET text == Strip(IF Truthy(Head(values)) THEN Head(values) ELSE <<>>)
         IN  (IF text # <<>> THEN <<text>> ELSE <<>>) \o NormaliseItems(Tail(values))

normalise_string_list(values) ==
    IF values = NoneList \/ values = <<>> THEN <<>> ELSE NormaliseItems(values)

\* the stored tags/categories column is a scalar string or null
_coerce_single_to_list(value) ==
    IF value = None \/ value = Missing THEN <<>>
    ELSE LET text == Strip(value) IN IF text # <<>> THEN <<text>> ELSE <<>>

\* dict.get("title", "Untitled"): the default applies to a missing key only
RowTitle(title) == IF title = Missing THEN <<"U", "n", "t", "i", "t", "l", "e", "d">> ELSE title

\* dict.get(key) of an optional column
RowGet(value) == IF value = Missing THEN None ELSE value

row_to_record(row) ==
    [id |-> row.id,
     title |-> RowTitle(row.title),
     url |-> RowGet(row.url),
     notes |-> RowGet(row.notes),
     tags |-> _coerce_single_to_list(row.tags),
     categories |-> _coerce_single_to_list(row.categories),
     created_at |-> row.created_at]

-----------------------------------------------------------------------------
(* Embedding gateway: src/src/core/embeddings.py *)

NoVector == [some |-> FALSE, len |-> 0, of |-> <<>>]
Vector(n, text) == [some |-> TRUE, len |-> n, of |-> text]

\* get_embedding_service: the cached value; built when the cache is empty
get_embedding_service(cache, settings) ==
    IF cache # "uncached" THEN cache
    ELSE IF settings.provider = "none" THEN "absent"
    ELSE IF settings.provider \in {"openai", "ollama"}
         THEN (IF settings.constructOk THEN "ready" ELSE "absent")
    ELSE "absent"

\* EmbeddingService.embed: the provider call, which may raise
service_embed(text, outcome) ==
    IF outcome.kind = "raise"
    THEN [raised |-> TRUE, vector |-> NoVector]
    ELSE [raised |-> FALSE, vector |-> Vector(outcome.len, text)]

\* embed_text without its try/except
EmbedTextUncaught(text, cache, settings, outcome) ==
    LET service == get_embedding_service(cache, settings)
        reply == service_embed(text, outcome)
    IN
    IF Strip(text) = <<>>
    THEN [vector |-> NoVector, raised |-> FALSE, provider_calls |-> 0, cache |-> cache]
    ELSE IF service = "absent"
    THEN [vector |-> NoVector, raised |-> FALSE, provider_calls |-> 0, cache |-> service]
    ELSE [vector |-> reply.vector, raised |-> reply.raised, provider_calls |-> 1,
          cache |-> service]

\* variant of the gateway in which a failed construction is not remembered
EmbedTextRetrying(text, cache, settings, outcome) ==
    LET service == get_embedding_service(cache, settings)
        reply == service_embed(text, outcome)
    IN
    IF Strip(text) = <<>>
    THEN [vector |-> NoVector, raised |-> FALSE, provider_calls |-> 0, cache |-> cache]
    ELSE IF service = "absent"
    THEN [vector |-> NoVector, raised |-> FALSE, provider_calls |-> 0, cache |-> cache]
    ELSE IF reply.raised
    THEN [vector |-> NoVector, raised |-> FALSE, provider_calls |-> 1, cache |-> service]
    ELSE [vector |-> reply.vector, raised |-> FALSE, provider_calls |-> 1, cache |-> service]

\* embed_text: [vector, raised, provider_calls, cache]
embed_text(text, cache, settings, outcome) ==
    LET service == get_embedding_service(cache, settings)
        reply == service_embed(text, outcome)
    IN
    IF Strip(text) = <<>>
    THEN [vector |-> NoVector, raised |-> FALSE, provider_calls |-> 0, cache |-> cache]
    ELSE IF service = "absent"
    THEN [vector |-> NoVector, raised |-> FALSE, provider_calls |-> 0, cache |-> service]
    ELSE IF reply.raised
    THEN [vector |-> NoVector, raised |-> FALSE, provider_calls |-> 1, cache |-> service]
    ELSE [vector |-> reply.vector, raised |-> FALSE, provider_calls |-> 1, cache |-> service]

-----------------------------------------------------------------------------
(* Upsert engine: src/src/tools/supabase_client.py *)

Newline == <<"\n">>

RECURSIVE NonEmpty(_)
NonEmpty(parts) ==
    IF parts = <<>> THEN <<>>
    ELSE (IF Head(parts) # <<>> THEN <<Head(parts)>> ELSE <<>>) \o NonEmpty(Tail(parts))

\* None when every segment is empty
_compose_embedding_text(title, notes, url) ==
    LET parts == <<Strip(title)>>
                 \o (IF Truthy(notes) THEN <<Strip(notes)>> ELSE <<>>)
                 \o (IF Truthy(url) THEN <<Strip(url)>> ELSE <<>>)
        combined == Join(NonEmpty(parts), Newline)
    IN IF combined # <<>> THEN combined ELSE None

\* no guard at all
DimensionUnchecked(vector, expected) == FALSE

\* the dimension guard: "if expected and len(vector) != expected"
DimensionRejected(vector, expected) == expected # 0 /\ vector.len # expected

\* "if expected and len(vector) != expected: return None" on the gateway's reply
GuardDimension(got, expected) ==
    IF got.vector.some /\ DimensionRejected(got.vector, expected)
    THEN [got EXCEPT !.vector = NoVector]
    ELSE got

\* _generate_embedding: embed_text plus the dimension guard
_generate_embedding(text, cache, settings, outcome) ==
    GuardDimension(embed_text(text, cache, settings, outcome), settings.D)

\* the order ascending: the oldest row
RECURSIVE Oldest(_)
Oldest(rows) ==
    IF rows = <<>> THEN <<>>
    ELSE LET rest == Oldest(Tail(rows)) IN
         IF rest = <<>> \/ Head(rows).created_at < rest[1].created_at
         THEN <<Head(rows)>> ELSE rest

\* .order("created_at", desc=True).limit(1) over the rows that pass a filter
RECURSIVE MostRecent(_)
MostRecent(rows) ==
    IF rows = <<>> THEN <<>>
    ELSE LET rest == MostRecent(Tail(rows)) IN
         IF rest = <<>> \/ Head(rows).created_at > rest[1].created_at
         THEN <<Head(rows)>> ELSE rest

RECURSIVE RowsWhere(_, _, _)
RowsWhere(rows, column, value) ==
    IF rows = <<>> THEN <<>>
    ELSE (IF Head(rows)[column] = value THEN <<Head(rows)>> ELSE <<>>)
         \o RowsWhere(Tail(rows), column, value)

\* variant of the lookup that never falls back to the title
FindByUrlOnly(rows, payload) ==
    [row |-> IF Truthy(payload.url)
             THEN MostRecent(RowsWhere(rows, "url", payload.url)) ELSE <<>>,
     selects |-> IF Truthy(payload.url) THEN <<"select_url">> ELSE <<>>]

\* _find_existing_row: <<>> or <<row>>, and the selects issued
_find_existing_row(rows, payload) ==
    LET byUrl == IF Truthy(payload.url)
                 THEN MostRecent(RowsWhere(rows, "url", payload.url)) ELSE <<>>
        byTitle == IF Truthy(payload.title)
                   THEN MostRecent(RowsWhere(rows, "title", payload.title)) ELSE <<>>
    IN IF byUrl # <<>> THEN [row |-> byUrl, selects |-> <<"select_url">>]
       ELSE [row |-> byTitle,
             selects |-> (IF Truthy(payload.url) THEN <<"select_url">> ELSE <<>>)
                         \o (IF Truthy(payload.title) THEN <<"select_title">> ELSE <<>>)]

\* variant of update_fields that always carries url and notes
UpdateFieldNamesAll(payload, tags, categories, vector) ==
    {"url", "notes"}
    \cup (IF tags # <<>> THEN {"tags"} ELSE {})
    \cup (IF categories # <<>> THEN {"categories"} ELSE {})
    \cup (IF vector.some THEN {"embeddings_vector"} ELSE {})
\* the partial update built from the payload (fields in update_fields)
UpdateFieldNames(payload, tags, categories, vector) ==
    (IF Truthy(payload.url) THEN {"url"} ELSE {})
    \cup (IF Truthy(payload.notes) THEN {"notes"} ELSE {})
    \cup (IF tags # <<>> THEN {"tags"} ELSE {})
    \cup (IF categories # <<>> THEN {"categories"} ELSE {})
    \cup (IF vector.some THEN {"embeddings_vector"} ELSE {})

UpdateFieldValue(name, payload, tags, categories, vector) ==
    CASE name = "url" -> payload.url
      [] name = "notes" -> payload.notes
      [] name = "tags" -> tags[1]
      [] name = "categories" -> categories[1]
      [] name = "embeddings_vector" -> vector

\* an update that also duplicates the first row under a fresh id
ApplyUpdateAppending(rows, id, names, payload, tags, categories, vector) ==
    Append(rows, [rows[1] EXCEPT !.id = Len(rows) + 1])

\* .update(fields).eq("id", id)
ApplyUpdate(rows, id, names, payload, tags, categories, vector) ==
    [i \in 1..Len(rows) |->
        IF rows[i].id = id
        THEN [f \in DOMAIN rows[i] |->
                 IF f \in names
                 THEN UpdateFieldValue(f, payload, tags, categories, vector)
                 ELSE rows[i][f]]
        ELSE rows[i]]

\* an insert that keeps the last tag and category instead of the first
InsertedRowLastElement(rows, now, payload, tags, categories, vector) ==
    [id |-> Len(rows) + 1,
     title |-> payload.title,
     url |-> payload.url,
     notes |-> payload.notes,
     tags |-> IF tags # <<>> THEN tags[Len(tags)] ELSE None,
     categories |-> IF categories # <<>> THEN categories[Len(categories)] ELSE None,
     created_at |-> now,
     embeddings_vector |-> vector]

\* the row the store creates for .insert(record_dict)
InsertedRow(rows, now, payload, tags, categories, vector) ==
    [id |-> Len(rows) + 1,
     title |-> payload.title,
     url |-> payload.url,
     notes |-> payload.notes,
     tags |-> IF tags # <<>> THEN tags[1] ELSE None,
     categories |-> IF categories # <<>> THEN categories[1] ELSE None,
     created_at |-> now,
     embeddings_vector |-> vector]

\* the last-resort record built from the payload
SynthesizedRecord(now, payload, tags, categories) ==
    [id |-> 0, title |-> payload.title, url |-> payload.url, notes |-> payload.notes,
     tags |-> tags, categories |-> categories, created_at |-> now]

\* the text embedded on the insert path only
TextToEmbedOnInsert(existing_row, current_text, payload_text) ==
    IF existing_row # <<>> THEN None ELSE payload_text

\* "if existing_row: ... if current_text == embedding_text: embedding_text = None"
TextToEmbed(existing_row, current_text, payload_text) ==
    IF existing_row # <<>> /\ current_text = payload_text THEN None ELSE payload_text

Raised(rows, cache, trace) ==
    [store |-> rows, cache |-> cache, raised |-> TRUE, trace |-> trace,
     record |-> <<>>, matched |-> <<>>, written |-> <<>>]

Returned(rows, cache, trace, record, matched, written) ==
    [store |-> rows, cache |-> cache, raised |-> FALSE, trace |-> trace,
     record |-> record, matched |-> matched, written |-> written]

\* current_text: the composed text of the matched row
CurrentText(existing_row) ==
    IF existing_row = <<>> THEN None
    ELSE _compose_embedding_text(
             Str(IF existing_row[1].title = Missing THEN <<>> ELSE existing_row[1].title),
             RowGet(existing_row[1].notes), RowGet(existing_row[1].url))

\* embedding_vector stays None: no gateway call
NoEmbedding(cache) ==
    [vector |-> NoVector, raised |-> FALSE, provider_calls |-> 0, cache |-> cache]

\* "if embedding_text: embedding_vector = _generate_embedding(embedding_text)"
EmbedIfText(embedding_text, cache, settings, outcome) ==
    IF Truthy(embedding_text)
    THEN _generate_embedding(embedding_text, cache, settings, outcome)
    ELSE NoEmbedding(cache)

\* the embedding step of add_resource for the row the lookup found
EmbeddingFor(existing_row, payload, cache, settings, outcome) ==
    EmbedIfText(
        TextToEmbed(existing_row, CurrentText(existing_row),
                    _compose_embedding_text(payload.title, payload.notes, payload.url)),
        cache, settings, outcome)

\* the gateway calls of one embedding step, as trace entries
Embeds(got) == [i \in 1..got.provider_calls |-> "embed"]

\* the return after .update(...).select("*").single().execute()
Updated(updated, echo, existing_row, got, trace, names) ==
    Returned(updated, got.cache, trace \o <<"update">>,
             <<row_to_record(
                 IF echo THEN MostRecent(RowsWhere(updated, "id", existing_row[1].id))[1]
                 ELSE existing_row[1])>>,
             existing_row,
             <<[kind |-> "update", id |-> existing_row[1].id, fields |-> names,
                vector |-> got.vector]>>)

\* "if existing_row:": no write when update_fields is empty, else one update
UpdateExisting(rows, payload, tags, categories, echo, fault, existing_row, got, trace, names) ==
    IF names = {}
    THEN Returned(rows, got.cache, trace, <<row_to_record(existing_row[1])>>,
                  existing_row, <<>>)
    ELSE IF fault = "write"
    THEN Raised(rows, got.cache, trace \o <<"update">>)
    ELSE Updated(ApplyUpdate(rows, existing_row[1].id, names, payload, tags, categories,
                             got.vector),
                 echo, existing_row, got, trace, names)

\* variant of the fallback that always filters on the title
RequeryColumnTitle(payload) == "title"

\* the column the fallback select filters on
RequeryColumn(payload) == IF Truthy(payload.url) THEN "url" ELSE "title"

\* the fallback select after an insert that echoed no row; it is traced under
\* the column it filters on, and answers with no row when the store shows none
Requery(rows, payload, fault) ==
    [selects |-> <<IF RequeryColumn(payload) = "url" THEN "requery_url"
                   ELSE "requery_title">>,
     row |-> IF fault = "unseen" THEN <<>>
             ELSE MostRecent(RowsWhere(rows, RequeryColumn(payload),
                                       payload[RequeryColumn(payload)]))]

\* the record returned on the insert path
InsertedRecord(now, payload, tags, categories, echo, new_row, requery) ==
    IF echo THEN <<row_to_record(new_row)>>
    ELSE IF requery.row # <<>> THEN <<row_to_record(requery.row[1])>>
    ELSE <<SynthesizedRecord(now, payload, tags, categories)>>

\* the insert path once the fallback select is known
InsertNew(rows, now, payload, tags, categories, echo, fault, got, trace, new_row, requery) ==
    IF fault = "write"
    THEN Raised(rows, got.cache, trace \o <<"insert">>)
    ELSE Returned(Append(rows, new_row), got.cache,
                  trace \o <<"insert">> \o (IF echo THEN <<>> ELSE requery.selects),
                  InsertedRecord(now, payload, tags, categories, echo, new_row, requery),
                  <<>>,
                  <<[kind |-> "insert", id |-> new_row.id,
                     fields |-> {"title", "url", "notes", "tags", "categories"}
                                \cup (IF got.vector.some
                                      THEN {"embeddings_vector"} ELSE {}),
                     vector |-> got.vector]>>)

\* the insert path: the insert, then the fallback select over the rows after it
InsertRow(rows, now, payload, tags, categories, echo, fault, got, trace, new_row) ==
    InsertNew(rows, now, payload, tags, categories, echo, fault, got, trace, new_row,
              Requery(Append(rows, new_row), payload, fault))

\* add_resource from update_fields on: update the matched row or insert
Persist(rows, now, payload, tags, categories, echo, fault, found, got) ==
    IF got.raised
    THEN Raised(rows, got.cache, found.selects \o Embeds(got))
    ELSE IF found.row # <<>>
    THEN UpdateExisting(rows, payload, tags, categories, echo, fault, found.row, got,
                        found.selects \o Embeds(got),
                        UpdateFieldNames(payload, tags, categories, got.vector))
    ELSE InsertRow(rows, now, payload, tags, categories, echo, fault, got,
                   found.selects \o Embeds(got),
                   InsertedRow(rows, now, payload, tags, categories, got.vector))

\* variant of the lookup step that carries on when the select raises
AfterLookupSwallowing(rows, now, cache, settings, payload, outcome, echo, fault, tags, categories, found) ==
    Persist(rows, now, payload, tags, categories, echo, fault, found,
            EmbeddingFor(found.row, payload, cache, settings, outcome))
\* add_resource after the lookup
AfterLookup(rows, now, cache, settings, payload, outcome, echo, fault, tags, categories, found) ==
    IF fault = "lookup" /\ found.selects # <<>>
    THEN Raised(rows, cache, <<found.selects[1]>>)
    ELSE Persist(rows, now, payload, tags, categories, echo, fault, found,
                 EmbeddingFor(found.row, payload, cache, settings, outcome))

\* add_resource.  fault names the store call that fails: "lookup" and "write"
\* raise, "unseen" makes the fallback select answer with no row, "none"
\* nothing; echo says whether the store echoes the written row.
add_resource(rows, now, cache, settings, payload, outcome, echo, fault) ==
    AfterLookup(rows, now, cache, settings, payload, outcome, echo, fault,
                normalise_string_list(payload.tags),
                normalise_string_list(payload.categories),
                _find_existing_row(rows, payload))

-----------------------------------------------------------------------------
(* Keyword expander and hybrid search: src/src/tools/supabase_client.py *)

EndsWith(s, suffix) ==
    Len(s) >= Len(suffix) /\ SubSeq(s, Len(s) - Len(suffix) + 1, Len(s)) = suffix

DropLast(s, n) == SubSeq(s, 1, Len(s) - n)

\* str.replace("-", " ")
HyphenToSpace(s) == [i \in 1..Len(s) |-> IF s[i] = "-" THEN " " ELSE s[i]]

\* variant of add(term) without the seen test
AddTermUnseen(ordered, term) ==
    IF ~Truthy(term) THEN ordered
    ELSE LET value == Lower(Strip(term)) IN
         IF value = <<>> THEN ordered ELSE Append(ordered, value)
\* the nested add(term): appends the stripped, lowercased term unless seen
AddTerm(ordered, term) ==
    IF ~Truthy(term) THEN ordered
    ELSE LET value == Lower(Strip(term)) IN
         IF value = <<>> \/ value \in Range(ordered) THEN ordered
         ELSE Append(ordered, value)

\* variant of the loop body that applies the first matching suffix rule only
KeywordFormsFirstRule(raw) ==
    LET lowered == Lower(Strip(raw)) IN
    <<raw>>
    \o (IF Len(lowered) > 3 /\ EndsWith(lowered, <<"i", "e", "s">>)
        THEN <<DropLast(lowered, 3) \o <<"y">> >>
        ELSE IF Len(lowered) > 3 /\ EndsWith(lowered, <<"e", "s">>)
        THEN <<DropLast(lowered, 2)>>
        ELSE IF Len(lowered) > 3 /\ EndsWith(lowered, <<"s">>)
        THEN <<DropLast(lowered, 1)>> ELSE <<>>)
    \o (IF "-" \in Range(lowered) THEN <<HyphenToSpace(lowered)>> ELSE <<>>)
\* the terms one raw keyword offers to add, in the order of the loop body
KeywordForms(raw) ==
    LET lowered == Lower(Strip(raw)) IN
    <<raw>>
    \o (IF Len(lowered) > 3 /\ EndsWith(lowered, <<"i", "e", "s">>)
        THEN <<DropLast(lowered, 3) \o <<"y">> >> ELSE <<>>)
    \o (IF Len(lowered) > 3 /\ EndsWith(lowered, <<"e", "s">>)
        THEN <<DropLast(lowered, 2)>> ELSE <<>>)
    \o (IF Len(lowered) > 3 /\ EndsWith(lowered, <<"s">>)
        THEN <<DropLast(lowered, 1)>> ELSE <<>>)
    \o (IF "-" \in Range(lowered) THEN <<HyphenToSpace(lowered)>> ELSE <<>>)

RECURSIVE AddTerms(_, _)
AddTerms(ordered, terms) ==
    IF terms = <<>> THEN ordered
    ELSE AddTerms(AddTerm(ordered, Head(terms)), Tail(terms))

RECURSIVE ExpandEach(_, _)
ExpandEach(ordered, keywords) ==
    IF keywords = <<>> THEN ordered
    ELSE ExpandEach(AddTerms(ordered, KeywordForms(Head(keywords))), Tail(keywords))

_expand_keywords(keywords, query) == AddTerm(ExpandEach(<<>>, keywords), query)

\* substring test
Contains(s, pat) ==
    \E i \in 0..(Len(s) - Len(pat)) : SubSeq(s, i + 1, i + Len(pat)) = pat

\* column ILIKE %pat% (a null column matches nothing)
ILike(value, pat) == value # None /\ value # Missing /\ Contains(Lower(value), Lower(pat))

\* the or_ clause list: any text column contains any expanded keyword
MatchesAny(row, terms) ==
    \E k \in 1..Len(terms) :
        \/ ILike(row.title, terms[k])
        \/ ILike(row.notes, terms[k])
        \/ ILike(row.url, terms[k])
        \/ ILike(row.tags, terms[k])
        \/ ILike(row.categories, terms[k])

RECURSIVE BaseKeywords(_)
BaseKeywords(keywords) ==
    IF keywords = <<>> THEN <<>>
    ELSE (IF Truthy(Head(keywords)) /\ Strip(Head(keywords)) # <<>>
          THEN <<Strip(Head(keywords))>> ELSE <<>>) \o BaseKeywords(Tail(keywords))

KeywordFilter(row, tags, categories, expanded) ==
    /\ tags # <<>> => ILike(row.tags, tags[1])
    /\ categories # <<>> => ILike(row.categories, categories[1])
    /\ expanded # <<>> => MatchesAny(row, expanded)

RECURSIVE FilterRows(_, _, _, _)
FilterRows(rows, tags, categories, expanded) ==
    IF rows = <<>> THEN <<>>
    ELSE (IF KeywordFilter(Head(rows), tags, categories, expanded)
          THEN <<Head(rows)>> ELSE <<>>)
         \o FilterRows(Tail(rows), tags, categories, expanded)

\* .order("created_at", desc=True)
RECURSIVE OrderByRecency(_)
OrderByRecency(rows) ==
    IF rows = <<>> THEN <<>>
    ELSE LET top == MostRecent(rows)[1] IN
         <<top>> \o OrderByRecency(SelectSeq(rows, LAMBDA r : r.id # top.id))

\* .limit(n)
StoreLimit(rows, n) == Take(rows, n)

RowsToRecords(rows) == [i \in 1..Len(rows) |-> row_to_record(rows[i])]

\* _keyword_search: the records of the select, most recent first
_keyword_search(rows, tags, categories, query, keywords, limit) ==
    LET base_keywords == BaseKeywords(IF keywords = NoneList THEN <<>> ELSE keywords)
        expanded_keywords == _expand_keywords(base_keywords, query)
    IN RowsToRecords(StoreLimit(
           OrderByRecency(FilterRows(rows, tags, categories, expanded_keywords)), limit))

-----------------------------------------------------------------------------
(* Error summarisation: src/src/tools/supabase_client.py *)

MaxReasonLen == 200

Ellipsis == <<"...">>

IsWhitespace(c) == c \in {" ", "\n", "\t"}

\* re.sub(r"\s+", " ", raw)
\* each run of whitespace becomes one space: a whitespace character followed
\* by another is dropped, the last of the run is written as a space
CollapseWhitespace(s) ==
    LET marked == [i \in 1..Len(s) |->
                     [c |-> IF IsWhitespace(s[i]) THEN " " ELSE s[i],
                      drop |-> IsWhitespace(s[i]) /\ i < Len(s) /\ IsWhitespace(s[i + 1])]]
        Kept(m) == ~m.drop
        kept == SelectSeq(marked, Kept)
    IN [i \in 1..Len(kept) |-> kept[i].c]

\* str.strip() of str(error): strips every whitespace character
RECURSIVE StripAll(_)
StripAll(s) ==
    IF s = <<>> THEN <<>>
    ELSE IF IsWhitespace(Head(s)) THEN StripAll(Tail(s))
    ELSE IF IsWhitespace(s[Len(s)]) THEN StripAll(SubSeq(s, 1, Len(s) - 1))
    ELSE s

\* variant that returns the cleaned text whatever its length
ExtractUntruncated(error) ==
    LET joined == IF error.details # <<>> THEN Join(error.details, <<" ", "-", " ">>)
                  ELSE StripAll(error.text)
    IN CollapseWhitespace(IF joined = <<>> THEN error.name ELSE joined)
\* an exception is [text, name, details]: str(error), its class name, and the
\* truthy message/code/hint attributes when it is an APIError
_extract_error_message(error) ==
    LET joined == IF error.details # <<>> THEN Join(error.details, <<" ", "-", " ">>)
                  ELSE StripAll(error.text)
        raw == IF joined = <<>> THEN error.name ELSE joined
        cleaned == CollapseWhitespace(raw)
    IN IF Len(cleaned) > MaxReasonLen
       THEN SubSeq(cleaned, 1, MaxReasonLen - 1) \o Ellipsis
       ELSE cleaned

SslHandshake ==
    <<"s", "s", "l", " ", "h", "a", "n", "d", "s", "h", "a", "k", "e">>

Code525 ==
    <<"c", "o", "d", "e", " ", "5", "2", "5">>

SslSentence ==
    <<"S", "e", "m", "a", "n", "t", "i", "c", " ", "s", "e", "a", "r", "c",
      "h", " ", "i", "s", " ", "t", "e", "m", "p", "o", "r", "a", "r", "i",
      "l", "y", " ", "u", "n", "a", "v", "a", "i", "l", "a", "b", "l", "e",
      " ", "b", "e", "c", "a", "u", "s", "e", " ", "S", "u", "p", "a", "b",
      "a", "s", "e", " ", "r", "e", "p", "o", "r", "t", "e", "d", " ", "a",
      "n", " ", "S", "S", "L", " ", "h", "a", "n", "d", "s", "h", "a", "k",
      "e", " ", "e", "r", "r", "o", "r", ".", " ", "S", "h", "o", "w", "i",
      "n", "g", " ", "k", "e", "y", "w", "o", "r", "d", " ", "m", "a", "t",
      "c", "h", "e", "s", " ", "o", "n", "l", "y", ".">>

ReasonOpen ==
    <<"S", "e", "m", "a", "n", "t", "i", "c", " ", "s", "e", "a", "r", "c",
      "h", " ", "u", "n", "a", "v", "a", "i", "l", "a", "b", "l", "e", " ",
      "(">>

ReasonClose ==
    <<")", ".", " ", "S", "h", "o", "w", "i", "n", "g", " ", "k", "e", "y",
      "w", "o", "r", "d", " ", "m", "a", "t", "c", "h", "e", "s", " ", "o",
      "n", "l", "y", ".">>

BareSentence ==
    <<"S", "e", "m", "a", "n", "t", "i", "c", " ", "s", "e", "a", "r", "c",
      "h", " ", "i", "s", " ", "u", "n", "a", "v", "a", "i", "l", "a", "b",
      "l", "e", " ", "r", "i", "g", "h", "t", " ", "n", "o", "w", ".", " ",
      "S", "h", "o", "w", "i", "n", "g", " ", "k", "e", "y", "w", "o", "r",
      "d", " ", "m", "a", "t", "c", "h", "e", "s", " ", "o", "n", "l", "y",
      ".">>

_summarise_semantic_error(error) ==
    LET reason == _extract_error_message(error)
        reason_lower == Lower(reason)
    IN IF Contains(reason_lower, SslHandshake) \/ Contains(reason_lower, Code525)
       THEN SslSentence
       ELSE IF reason # <<>> THEN ReasonOpen \o reason \o ReasonClose
       ELSE BareSentence

-----------------------------------------------------------------------------
(* Hybrid search: src/src/tools/supabase_client.py *)

RECURSIVE RowsAt(_, _)
RowsAt(rows, order) ==
    IF order = <<>> THEN <<>>
    ELSE (IF Head(order) \in 1..Len(rows) THEN <<rows[Head(order)]>> ELSE <<>>)
         \o RowsAt(rows, Tail(order))

\* the match_resources procedure: the rows it ranks, capped at match_count
MatchResources(rows, order, match_count) == StoreLimit(RowsAt(rows, order), match_count)

\* no procedure call was made
NoParams == [match_count |-> 0, filter_tags |-> Missing, filter_categories |-> Missing]

\* variant of params that sends the first tag and category only
RpcParamsFirstOnly(limit, tags, categories) ==
    [match_count |-> limit,
     filter_tags |-> IF tags # <<>> THEN <<tags[1]>> ELSE Missing,
     filter_categories |-> IF categories # <<>> THEN <<categories[1]>> ELSE Missing]

\* params of the match_resources call, the embedding aside (it is "sent")
RpcParams(limit, tags, categories) ==
    [match_count |-> limit,
     filter_tags |-> IF tags # <<>> THEN tags ELSE Missing,
     filter_categories |-> IF categories # <<>> THEN categories ELSE Missing]

\* variant that calls the procedure whether or not there is a vector
SearchByEmbeddingAlwaysCalls(rows, limit, rpc, got, params) ==
    IF rpc.kind = "raise"
    THEN [records |-> <<>>, raised |-> TRUE, error |-> rpc.error, rpc_calls |-> 1,
          sent |-> got.vector, params |-> params,
          provider_calls |-> got.provider_calls, cache |-> got.cache]
    ELSE [records |-> RowsToRecords(MatchResources(rows, rpc.order, limit)),
          raised |-> FALSE, error |-> rpc.error, rpc_calls |-> 1, sent |-> got.vector,
          params |-> params,
          provider_calls |-> got.provider_calls, cache |-> got.cache]
\* _semantic_search once the query embedding is known
SearchByEmbedding(rows, limit, rpc, got, params) ==
    IF got.raised
    THEN [records |-> <<>>, raised |-> TRUE,
          error |-> [text |-> <<>>, name |-> <<"E">>, details |-> <<>>],
          rpc_calls |-> 0, sent |-> NoVector, params |-> NoParams,
          provider_calls |-> got.provider_calls, cache |-> got.cache]
    ELSE IF ~got.vector.some
    THEN [records |-> <<>>, raised |-> FALSE, error |-> rpc.error, rpc_calls |-> 0,
          sent |-> NoVector, params |-> NoParams,
          provider_calls |-> got.provider_calls, cache |-> got.cache]
    ELSE IF rpc.kind = "raise"
    THEN [records |-> <<>>, raised |-> TRUE, error |-> rpc.error, rpc_calls |-> 1,
          sent |-> got.vector, params |-> params,
          provider_calls |-> got.provider_calls, cache |-> got.cache]
    ELSE [records |-> RowsToRecords(MatchResources(rows, rpc.order, limit)),
          raised |-> FALSE, error |-> rpc.error, rpc_calls |-> 1, sent |-> got.vector,
          params |-> params,
          provider_calls |-> got.provider_calls, cache |-> got.cache]

\* _semantic_search:
\* [records, raised, error, rpc_calls, sent, params, provider_calls, cache]
_semantic_search(rows, query, tags, categories, limit, cache, settings, outcome, rpc) ==
    SearchByEmbedding(rows, limit, rpc, _generate_embedding(query, cache, settings, outcome),
                      RpcParams(limit, tags, categories))

HasId(combined, id) == \E i \in 1..Len(combined) : combined[i].id = id

\* combined[record.id] = record on an insertion-ordered dict
PutRecord(combined, record) ==
    IF HasId(combined, record.id)
    THEN [i \in 1..Len(combined) |->
             IF combined[i].id = record.id THEN record ELSE combined[i]]
    ELSE Append(combined, record)

\* the loop over semantic_results: stops at the first point len(combined) >= limit
RECURSIVE SemanticLoop(_, _, _)
SemanticLoop(combined, records, limit) ==
    IF records = <<>> THEN [combined |-> combined, returned |-> FALSE]
    ELSE LET next == PutRecord(combined, Head(records)) IN
         IF Len(next) >= limit THEN [combined |-> next, returned |-> TRUE]
         ELSE SemanticLoop(next, Tail(records), limit)

\* the merge without the "not in combined" test
MergeKeywordUnchecked(combined, record) == Append(combined, record)

\* one iteration of the loop over keyword_results, before its break test
MergeKeyword(combined, record) ==
    IF ~HasId(combined, record.id) THEN Append(combined, record) ELSE combined

\* the loop without its break
RECURSIVE KeywordLoopNoBreak(_, _, _)
KeywordLoopNoBreak(combined, records, limit) ==
    IF records = <<>> THEN combined
    ELSE KeywordLoopNoBreak(MergeKeyword(combined, Head(records)), Tail(records), limit)

RECURSIVE KeywordLoop(_, _, _)
KeywordLoop(combined, records, limit) ==
    IF records = <<>> THEN combined
    ELSE LET next == MergeKeyword(combined, Head(records)) IN
         IF Len(next) >= limit THEN next
         ELSE KeywordLoop(next, Tail(records), limit)

\* the except clause around the semantic phase
SemanticNotices(sem) ==
    IF sem.raised THEN <<_summarise_semantic_error(sem.error)>> ELSE <<>>

\* "if query:" the semantic phase, else nothing
SemanticPhase(rows, query, tags, categories, limit, cache, settings, outcome, rpc) ==
    IF Truthy(query)
    THEN _semantic_search(rows, query, tags, categories, limit, cache, settings, outcome,
                          rpc)
    ELSE [records |-> <<>>, raised |-> FALSE, error |-> rpc.error,
          rpc_calls |-> 0, sent |-> NoVector, params |-> NoParams,
          provider_calls |-> 0, cache |-> cache]

\* the remote calls of the semantic phase, as trace entries
SemanticTrace(sem) ==
    [i \in 1..sem.provider_calls |-> "embed"] \o [i \in 1..sem.rpc_calls |-> "rpc"]

\* the row cap of the keyword select that was issued, if one was
NoCap == <<>>

FetchReturned(records, notices, trace, sem, keyword_results, cap) ==
    [records |-> records, notices |-> notices, raised |-> FALSE, trace |-> trace,
     sent |-> sem.sent, params |-> sem.params, cache |-> sem.cache,
     semantic |-> sem.records, keyword |-> keyword_results, cap |-> cap]

\* the loop over keyword_results and the final return
MergeKeywordResults(combined, keyword_results, limit, notices, trace, sem, cap) ==
    FetchReturned(KeywordLoop(combined, keyword_results, limit), notices, trace, sem,
                  keyword_results, <<cap>>)

\* variant of the cap that asks for limit rows only
KeywordCapSingle(limit) == limit

\* "limit=limit * 2"
KeywordCap(limit) == limit * 2

\* fetch_resources after the semantic loop: the early return, or the keyword phase
KeywordPhase(rows, tag_values, category_values, query, keywords, limit, fault, sem, looped, notices, trace) ==
    IF looped.returned
    THEN FetchReturned(looped.combined, notices, trace, sem, <<>>, NoCap)
    ELSE IF fault = "select"
    THEN [records |-> <<>>, notices |-> <<>>, raised |-> TRUE,
          trace |-> trace \o <<"select_keyword">>, sent |-> sem.sent,
          params |-> sem.params, cache |-> sem.cache,
          semantic |-> sem.records, keyword |-> <<>>, cap |-> <<KeywordCap(limit)>>]
    ELSE MergeKeywordResults(looped.combined,
                             _keyword_search(rows, tag_values, category_values, query,
                                             keywords, KeywordCap(limit)),
                             limit, notices, trace \o <<"select_keyword">>, sem,
                             KeywordCap(limit))

\* fetch_resources after the semantic search
AfterSemantic(rows, tag_values, category_values, query, keywords, limit, fault, sem) ==
    KeywordPhase(rows, tag_values, category_values, query, keywords, limit, fault, sem,
                 SemanticLoop(<<>>, sem.records, limit), SemanticNotices(sem),
                 SemanticTrace(sem))

\* fetch_resources.  rpc is the outcome of the similarity procedure, fault
\* names the store call that raises ("none" or "select").
fetch_resources(rows, cache, settings, tags, categories, query, keywords, limit, outcome, rpc, fault) ==
    AfterSemantic(rows, normalise_string_list(tags), normalise_string_list(categories),
                  query, keywords, limit, fault,
                  SemanticPhase(rows, query, normalise_string_list(tags),
                                normalise_string_list(categories), limit, cache, settings,
                                outcome, rpc))

-----------------------------------------------------------------------------
(* Agent nodes: src/src/agent/graph.py *)

MaxTitleLen == 60
MaxAgentLimit == 25
DefaultLimit == 5

UntitledResource ==
    <<"U", "n", "t", "i", "t", "l", "e", "d", " ", "r", "e", "s", "o", "u", "r", "c", "e">>

_derive_title(url, fallback_text) ==
    LET snippet == Strip(fallback_text) IN
    IF Truthy(url) THEN url
    ELSE IF snippet = <<>> THEN UntitledResource
    ELSE Take(snippet, MaxTitleLen)
         \o (IF Len(snippet) > MaxTitleLen THEN Ellipsis ELSE <<>>)

\* (value or "").strip()
OrEmptyStrip(value) == Strip(IF Truthy(value) THEN value ELSE <<>>)

\* x or None
OrNone(value) == IF value = <<>> THEN None ELSE value

\* _ensure_list of a list (or None) of strings
_ensure_list(value) ==
    IF value = NoneList THEN <<>>
    ELSE NonEmpty([i \in 1..Len(value) |-> Strip(Str(value[i]))])

\* the ResourceInput built by store_resource from the parsed request
StorePayload(parsed, user_message_text) ==
    LET tags == _ensure_list(parsed.tags)
        categories == _ensure_list(parsed.categories)
        title0 == OrEmptyStrip(parsed.title)
        url == OrNone(OrEmptyStrip(parsed.url))
        notes0 == OrNone(OrEmptyStrip(parsed.notes))
        title == IF title0 = <<>> THEN _derive_title(url, user_message_text) ELSE title0
        notes == IF ~Truthy(notes0) /\ ~Truthy(url) THEN user_message_text ELSE notes0
    IN [title |-> title, url |-> url, notes |-> notes,
        tags |-> IF tags = <<>> THEN NoneList ELSE tags,
        categories |-> IF categories = <<>> THEN NoneList ELSE categories]

IsDigit(c) == c \in {"0", "1", "2", "3", "4", "5", "6", "7", "8", "9"}

DigitValue(c) ==
    CASE c = "0" -> 0 [] c = "1" -> 1 [] c = "2" -> 2 [] c = "3" -> 3 [] c = "4" -> 4
      [] c = "5" -> 5 [] c = "6" -> 6 [] c = "7" -> 7 [] c = "8" -> 8 [] c = "9" -> 9

\* str.isdigit()
IsDigits(s) == s # <<>> /\ \A i \in 1..Len(s) : IsDigit(s[i])

\* int(s) of a digit string
RECURSIVE ParseInt(_)
ParseInt(s) ==
    IF s = <<>> THEN 0
    ELSE ParseInt(SubSeq(s, 1, Len(s) - 1)) * 10 + DigitValue(s[Len(s)])

Min(a, b) == IF a < b THEN a ELSE b

\* _coerce_limit of [kind, int, str]: an int, a str, or any other value
_coerce_limit(value) ==
    IF value.kind = "int" /\ value.int > 0 THEN Min(value.int, MaxAgentLimit)
    ELSE IF value.kind = "str" /\ IsDigits(Strip(value.str))
    THEN Min(ParseInt(Strip(value.str)), MaxAgentLimit)
    ELSE DefaultLimit

-----------------------------------------------------------------------------
\* the items a for loop visits in the value fetch_resources returns, and the
\* items of a plain list of records.  The returned value is the two-element
\* tuple (records, notices): both of its items are lists.
RecordItems(records) == [i \in 1..Len(records) |-> [kind |-> "record", value |-> records[i]]]
TupleItems(records, notices) ==
    <<[kind |-> "list", value |-> records], [kind |-> "list", value |-> notices]>>

\* one "- title -> url (tags: ...; categories: ...)" line of the reply
ReplyLine(record) ==
    [title |-> record.title, url |-> IF Truthy(record.url) THEN record.url ELSE None,
     tags |-> record.tags, categories |-> record.categories]

\* _format_retrieval_response: "not records" tests the length of the value,
\* and record.title of an item that is a list raises AttributeError
_format_retrieval_response(items, tags, categories, query) ==
    IF items = <<>>
    THEN [raised |-> FALSE, kind |-> "none", lines |-> <<>>,
          target |-> [query |-> IF Truthy(query) THEN query ELSE None, tags |-> tags,
                      categories |-> categories]]
    ELSE IF \E i \in 1..Len(items) : items[i].kind # "record"
    THEN [raised |-> TRUE, kind |-> "AttributeError", lines |-> <<>>, target |-> <<>>]
    ELSE [raised |-> FALSE, kind |-> "matches",
          lines |-> [i \in 1..Len(items) |-> ReplyLine(items[i].value)], target |-> <<>>]

\* the fetch node after the engine call: the except branch, or the formatting
\* of the value the call returned
NodeReply(r, tags, categories, query) ==
    IF r.raised
    THEN [raised |-> FALSE, kind |-> "error", lines |-> <<>>, target |-> <<>>]
    ELSE _format_retrieval_response(TupleItems(r.records, r.notices), tags, categories,
                                    query)

\* "tags or None"
ListOrNone(values) == IF values = <<>> THEN NoneList ELSE values

FetchNodeCall(rows, cache, settings, tags, categories, query, limit, outcome, rpc, fault) ==
    \* keywords is left at its default
    [tags |-> tags, categories |-> categories, query |-> query, limit |-> limit,
     engine |-> fetch_resources(rows, cache, settings, ListOrNone(tags),
                                ListOrNone(categories), query, NoneList, limit, outcome,
                                rpc, fault)]

\* the agent's fetch_resources node
fetch_node(rows, cache, settings, parsed, outcome, rpc, fault) ==
    FetchNodeCall(rows, cache, settings, _ensure_list(parsed.tags),
                  _ensure_list(parsed.categories), OrNone(OrEmptyStrip(parsed.query)),
                  _coerce_limit(parsed.limit), outcome, rpc, fault)

-----------------------------------------------------------------------------
(* Input domains *)

A == <<"a">>
B == <<"b">>
U == <<"u">>
N == <<"n">>

\* rows present before the engine's first call (written through the same table)
BaseRow(i, D) ==
    CASE i = 1 -> [id |-> 1, title |-> B, url |-> U, notes |-> N, tags |-> <<"t">>,
                   categories |-> <<"c", "a">>, created_at |-> 3,
                   embeddings_vector |-> NoVector]
      [] i = 2 -> [id |-> 2, title |-> A, url |-> U, notes |-> <<"t", "a", "g">>,
                   tags |-> None, categories |-> None, created_at |-> 1,
                   embeddings_vector |-> Vector(D, <<"a", "\n", "t", "a", "g", "\n", "u">>)]
      [] i = 3 -> [id |-> 3, title |-> None, url |-> None, notes |-> <<"A", " ", "b">>,
                   tags |-> <<"T">>, categories |-> None, created_at |-> 2,
                   embeddings_vector |-> NoVector]
      [] OTHER -> [id |-> i, title |-> A, url |-> None, notes |-> None, tags |-> <<"x">>,
                   categories |-> <<"c">>, created_at |-> i,
                   embeddings_vector |-> NoVector]

BaseRows(n, D) == [i \in 1..n |-> BaseRow(i, D)]

Envs ==
    {[D |-> d, provider |-> "openai", constructOk |-> TRUE] : d \in 0..MaxDim}
    \cup {[D |-> MaxDim, provider |-> "none", constructOk |-> TRUE],
          [D |-> MaxDim, provider |-> "ollama", constructOk |-> FALSE]}

NominalEnv == [D |-> MaxDim, provider |-> "openai", constructOk |-> TRUE]

\* what the provider does when called: raise, or a vector of some length
EmbedOutcomes(D) ==
    {[kind |-> "raise", len |-> 0]} \cup {[kind |-> "vector", len |-> n] : n \in {D, D + 1}}

GoodVector(D) == [kind |-> "vector", len |-> D]

P(t, u, n) == [title |-> t, url |-> u, notes |-> n, tags |-> NoneList, categories |-> NoneList]

PlainPayloads ==
    {P(A, U, None), P(A, U, N), P(A, None, N), P(B, U, None), P(B, U, <<"n", " ">>),
     P(B, None, None)}

TaggedPayloads ==
    {[title |-> <<"c">>, url |-> None, notes |-> None,
      tags |-> << <<" ">>, <<" ", "t">>, <<"x">> >>, categories |-> << <<"c">>, <<"d">> >>]}

\* (echo, fault): whether the store echoes the write, and which store call raises
Echo == [echo |-> TRUE, fault |-> "none"]
Silent == [echo |-> FALSE, fault |-> "none"]
LookupFault == [echo |-> TRUE, fault |-> "lookup"]
WriteFault == [echo |-> TRUE, fault |-> "write"]
Unseen == [echo |-> FALSE, fault |-> "unseen"]

AddInputs(D) ==
    {[payload |-> p, outcome |-> GoodVector(D), mode |-> Echo] :
        p \in PlainPayloads \cup TaggedPayloads}
    \cup {[payload |-> p, outcome |-> o, mode |-> m] :
            p \in {P(A, U, None), P(B, U, <<"n", " ">>)}, o \in EmbedOutcomes(D),
            m \in {Echo, Silent}}
    \cup {[payload |-> P(A, None, N), outcome |-> GoodVector(D), mode |-> m] :
            m \in {LookupFault, WriteFault, Silent, Unseen}}
    \cup {[payload |-> P(B, U, None), outcome |-> GoodVector(D), mode |-> Unseen]}

LongText == [i \in 1..(MaxTitleLen + 1) |-> "x"]

Parsed(t, u, g) ==
    [title |-> t, url |-> u, notes |-> None, tags |-> g, categories |-> NoneList]

\* (parsed request, text of the user's message, store mode)
NodeInputs ==
    {[parsed |-> Parsed(None, None, NoneList), text |-> <<" ", "n">>, mode |-> Echo],
     [parsed |-> Parsed(<<" ">>, <<"u", " ">>, NoneList), text |-> <<"n">>, mode |-> Echo],
     [parsed |-> Parsed(<<" ", "a">>, None, << <<"t">>, <<" ">> >>), text |-> <<>>,
      mode |-> Echo],
     [parsed |-> Parsed(None, None, NoneList), text |-> <<>>, mode |-> Echo],
     [parsed |-> Parsed(None, None, NoneList), text |-> LongText, mode |-> Echo],
     [parsed |-> Parsed(None, None, NoneList), text |-> <<"n">>, mode |-> WriteFault]}

\* (settings, number of rows already stored) the process starts from
Starts ==
    {[env |-> NominalEnv, rows |-> n] : n \in {0, MaxRows}}
    \cup {[env |-> e, rows |-> MaxRows] : e \in Envs}

Limits == (0..MaxLimit) \cup {_coerce_limit(v) :
    v \in {[kind |-> "int", int |-> 0, str |-> <<>>],
           [kind |-> "int", int |-> MaxLimit, str |-> <<>>],
           [kind |-> "int", int |-> 100, str |-> <<>>],
           [kind |-> "str", int |-> 0, str |-> <<" ", "0">>],
           [kind |-> "str", int |-> 0, str |-> <<"x">>],
           [kind |-> "other", int |-> 0, str |-> <<>>]}}

\* exceptions the similarity procedure raises: [text, name, details]
RpcErrors ==
    {[text |-> <<"x", " ", "\n", "y">>, name |-> <<"E">>, details |-> <<>>],
     [text |-> <<"C", "o", "d", "e", " ", "5", "2", "5">>, name |-> <<"E">>,
      details |-> <<>>]}

NoError == [text |-> <<>>, name |-> <<>>, details |-> <<>>]

\* two relevance orders over the rows, and every prefix of them
Rotated == [i \in 1..MaxRows |-> (i % MaxRows) + 1]
Reversed == [i \in 1..MaxRows |-> MaxRows + 1 - i]
Rankings == {SubSeq(order, 1, m) : order \in {Rotated, Reversed}, m \in 0..MaxRows}

Ranked(order) == [kind |-> "rows", order |-> order, error |-> NoError]
RpcRaises(error) == [kind |-> "raise", order |-> <<>>, error |-> error]

RpcOutcomes == {Ranked(order) : order \in Rankings} \cup {RpcRaises(e) : e \in RpcErrors}

Filters ==
    {[tags |-> NoneList, categories |-> NoneList],
     [tags |-> << <<" ">>, <<" ", "T">> >>, categories |-> NoneList],
     [tags |-> << <<"t">>, <<"x">> >>, categories |-> << <<"c">> >>]}

KeywordLists ==
    {NoneList, << <<"t", "a", "g", "s">> >>, << <<"A", "-", "b">>, <<" ">> >>}

\* (query, provider outcome, procedure outcome): the semantic phase's inputs
SemanticInputs(D) ==
    {[query |-> q, outcome |-> GoodVector(D), rpc |-> Ranked(<<>>)] : q \in {None, <<>>}}
    \cup {[query |-> A, outcome |-> o, rpc |-> Ranked(<<>>)] :
            o \in EmbedOutcomes(D) \ {GoodVector(D)}}
    \cup {[query |-> A, outcome |-> GoodVector(D), rpc |-> r] : r \in RpcOutcomes}

FetchInputs(D) ==
    {[filter |-> f, keywords |-> k, limit |-> n, sem |-> m, fault |-> x] :
        f \in Filters, k \in KeywordLists, n \in Limits, m \in SemanticInputs(D),
        x \in {"none", "select"}}

\* the few searches interleaved with the other operations
FewFetchInputs(D) ==
    {[filter |-> [tags |-> NoneList, categories |-> NoneList], keywords |-> NoneList,
      limit |-> MaxLimit, sem |-> m, fault |-> "none"] :
        m \in {[query |-> A, outcome |-> o, rpc |-> Ranked(Reversed)] :
                  o \in EmbedOutcomes(D)}
              \cup {[query |-> A, outcome |-> GoodVector(D),
                     rpc |-> RpcRaises([text |-> <<"x">>, name |-> <<"E">>,
                                        details |-> <<>>])]}}

BatchSizes == {1, 2}

-----------------------------------------------------------------------------
(* State machine *)

Idle == [pc |-> "idle", batch |-> <<>>, updated |-> 0, size |-> 0]

Init ==
    /\ \E start \in Starts :
        /\ env = start.env
        /\ store = BaseRows(start.rows, start.env.D)
    /\ svc = "uncached"
    /\ clock = MaxRows + 2
    /\ calls = 0
    /\ bf = Idle
    /\ last = [op |-> "init"]
    /\ pcfg = [ttl |-> 1, limit |-> 1]
    /\ queue = <<>>
    /\ allowlist = <<>>
    /\ ptime = 0
    /\ plast = [op |-> "init"]
    /\ helper = [fn |-> "none"]
    /\ InitFront

AddObserved(via, payload, input, before, r) ==
    [op |-> "add", via |-> via, payload |-> payload, outcome |-> input.outcome,
     mode |-> input.mode, before |-> before, raised |-> r.raised, trace |-> r.trace,
     record |-> r.record, matched |-> r.matched, written |-> r.written]

\* SupabaseResourceClient.add_resource, called directly
AddResource ==
    /\ calls < MaxCalls
    /\ \E input \in AddInputs(env.D) :
        \E r \in {add_resource(store, clock, svc, env, input.payload, input.outcome,
                               input.mode.echo, input.mode.fault)} :
            /\ store' = r.store
            /\ svc' = r.cache
            /\ last' = AddObserved("client", input.payload, input, store, r)
    /\ clock' = clock + 1
    /\ calls' = calls + 1
    /\ UNCHANGED <<env, bf, pairingVars, helper, frontVars>>

\* the agent's store_resource node: builds the payload, calls add_resource and
\* turns any exception into a reply
StoreResource ==
    /\ calls < MaxCalls
    /\ \E request \in NodeInputs :
        \E payload \in {StorePayload(request.parsed, request.text)} :
            \E r \in {add_resource(store, clock, svc, env, payload, GoodVector(env.D),
                                   request.mode.echo, request.mode.fault)} :
                /\ store' = r.store
                /\ svc' = r.cache
                /\ last' = AddObserved("node", payload,
                                       [outcome |-> GoodVector(env.D),
                                        mode |-> request.mode],
                                       store, r)
    /\ clock' = clock + 1
    /\ calls' = calls + 1
    /\ UNCHANGED <<env, bf, pairingVars, helper, frontVars>>

FetchObserved(input, r) ==
    [op |-> "fetch", filter |-> input.filter, keywords |-> input.keywords,
     limit |-> input.limit, query |-> input.sem.query, outcome |-> input.sem.outcome,
     rpc |-> input.sem.rpc, fault |-> input.fault, raised |-> r.raised,
     records |-> r.records, notices |-> r.notices, trace |-> r.trace, sent |-> r.sent,
     params |-> r.params, semantic |-> r.semantic, keyword |-> r.keyword, cap |-> r.cap,
     cached |-> svc]

Fetch(input) ==
    \E r \in {fetch_resources(store, svc, env, input.filter.tags, input.filter.categories,
                              input.sem.query, input.keywords, input.limit,
                              input.sem.outcome, input.sem.rpc, input.fault)} :
        /\ svc' = r.cache
        /\ last' = FetchObserved(input, r)

\* SupabaseResourceClient.fetch_resources over the wide input domain: one call
\* from each starting store (the call reads the store and writes nothing)
FetchResources ==
    /\ calls = 0
    /\ \E input \in FetchInputs(env.D) : Fetch(input)
    /\ calls' = calls + 1
    /\ UNCHANGED <<store, env, clock, bf, pairingVars, helper, frontVars>>

\* fetch_resources interleaved with the other operations
SearchStep ==
    /\ calls < MaxCalls
    /\ \E input \in FewFetchInputs(env.D) : Fetch(input)
    /\ calls' = calls + 1
    /\ UNCHANGED <<store, env, clock, bf, pairingVars, helper, frontVars>>

\* rows whose embeddings_vector is null
RECURSIVE NullVectorRows(_)
NullVectorRows(rows) ==
    IF rows = <<>> THEN <<>>
    ELSE (IF ~Head(rows).embeddings_vector.some THEN <<Head(rows)>> ELSE <<>>)
         \o NullVectorRows(Tail(rows))

\* backfill_embeddings: the select at the top of the while loop.  The select
\* has no order, so any batch_size of the null-vector rows may come back.
SelectBatch ==
    /\ bf.pc \in {"idle", "loop"}
    /\ bf.batch = <<>>
    /\ \E size \in (IF bf.pc = "idle" THEN BatchSizes ELSE {bf.size}) :
        LET pending == NullVectorRows(store)
            count == Min(size, Len(pending))
        IN \E ids \in SUBSET {pending[i].id : i \in 1..Len(pending)} :
            /\ Cardinality(ids) = count
            /\ LET rows == SelectSeq(pending, LAMBDA r : r.id \in ids) IN
               bf' = IF rows = <<>>
                     THEN [bf EXCEPT !.pc = "done", !.size = size]
                     ELSE [bf EXCEPT !.pc = "loop", !.size = size, !.batch = rows]
    /\ last' = [op |-> "backfill_select"]
    /\ UNCHANGED <<store, env, svc, clock, pairingVars, helper, frontVars>>

\* the select as one of the engine's calls
BackfillSelect ==
    /\ calls < MaxCalls
    /\ SelectBatch
    /\ calls' = calls + 1

\* row.get("title", "")
BackfillTitle(row) == IF row.title = Missing THEN <<>> ELSE row.title

\* the text composed for one row of the batch; a null title makes
\* title.strip() raise before any text exists
BackfillText(row) ==
    IF BackfillTitle(row) = None THEN None
    ELSE _compose_embedding_text(BackfillTitle(row), RowGet(row.notes), RowGet(row.url))

\* one iteration of "for row in rows"
EmbedRow ==
    /\ bf.pc = "loop"
    /\ bf.batch # <<>>
    /\ \E outcome \in EmbedOutcomes(env.D), row \in {Head(bf.batch)} :
        \E got \in {EmbedIfText(BackfillText(row), svc, env, outcome)} :
           IF BackfillTitle(row) = None
           THEN \* None.strip() raises AttributeError out of the script
                /\ bf' = [bf EXCEPT !.pc = "failed", !.batch = <<>>]
                /\ last' = [op |-> "backfill_row", raised |-> TRUE, written |-> <<>>]
                /\ UNCHANGED <<store, svc>>
           ELSE IF ~got.vector.some
           THEN /\ bf' = [bf EXCEPT !.batch = Tail(bf.batch)]
                /\ svc' = got.cache
                /\ last' = [op |-> "backfill_row", raised |-> FALSE, written |-> <<>>]
                /\ UNCHANGED store
           ELSE /\ bf' = [bf EXCEPT !.batch = Tail(bf.batch), !.updated = bf.updated + 1]
                /\ svc' = got.cache
                /\ store' = [i \in 1..Len(store) |->
                                IF store[i].id = row.id
                                THEN [store[i] EXCEPT !.embeddings_vector = got.vector]
                                ELSE store[i]]
                /\ last' = [op |-> "backfill_row", raised |-> FALSE,
                            written |-> <<[kind |-> "update", id |-> row.id,
                                           fields |-> {"embeddings_vector"},
                                           vector |-> got.vector]>>]
    /\ UNCHANGED <<env, clock, pairingVars, helper, frontVars>>

\* the iteration as one of the engine's calls
BackfillRow ==
    /\ calls < MaxCalls
    /\ EmbedRow
    /\ calls' = calls + 1

Next == AddResource \/ StoreResource \/ SearchStep \/ BackfillSelect \/ BackfillRow

Spec == Init /\ [][Next]_vars

\* parsed requests of the fetch node: [tags, categories, query, limit]
ParsedFetches ==
    {[tags |-> g, categories |-> NoneList, query |-> q, limit |-> n] :
        g \in {NoneList, << <<" ">>, <<" ", "T">> >>},
        q \in {None, <<" ">>, <<" ", "a">>},
        n \in {[kind |-> "other", int |-> 0, str |-> <<>>],
               [kind |-> "int", int |-> 1, str |-> <<>>],
               [kind |-> "str", int |-> 0, str |-> <<"0">>]}}

FetchNodeInputs(D) ==
    {[parsed |-> p, outcome |-> o, rpc |-> r, fault |-> x] :
        p \in ParsedFetches, o \in {GoodVector(D), [kind |-> "raise", len |-> 0]},
        r \in {Ranked(<<>>), Ranked(Reversed)} \cup {RpcRaises(e) : e \in RpcErrors},
        x \in {"none", "select"}}

\* the agent's fetch_resources node, one call from each starting store
FetchNode ==
    /\ calls = 0
    /\ \E input \in FetchNodeInputs(env.D) :
        \E call \in {fetch_node(store, svc, env, input.parsed, input.outcome, input.rpc,
                                input.fault)} :
            \E reply \in {NodeReply(call.engine, call.tags, call.categories, call.query)} :
                /\ svc' = call.engine.cache
                /\ last' = [op |-> "fetch_node", parsed |-> input.parsed,
                            tags |-> call.tags, categories |-> call.categories,
                            query |-> call.query, limit |-> call.limit,
                            engine_raised |-> call.engine.raised,
                            records |-> call.engine.records,
                            notices |-> call.engine.notices,
                            raised |-> reply.raised, reply |-> reply]
    /\ calls' = calls + 1
    /\ UNCHANGED <<store, env, clock, bf, pairingVars, helper, frontVars>>
SpecSearch == Init /\ [][FetchResources]_vars

\* backfill_embeddings run on its own from start to end: the script is one
\* sequential process, so a step it can take is eventually taken
RunSelect == SelectBatch /\ UNCHANGED calls
RunRow == EmbedRow /\ UNCHANGED calls
NextBackfill == RunSelect \/ RunRow

\* the script starts on any of the stores, under any of the settings
InitBackfill ==
    /\ \E e \in Envs, n \in 0..MaxRows :
        /\ env = e
        /\ store = BaseRows(n, e.D)
    /\ svc = "uncached"
    /\ clock = MaxRows + 2
    /\ calls = 0
    /\ bf = Idle
    /\ last = [op |-> "init"]
    /\ pcfg = [ttl |-> 1, limit |-> 1]
    /\ queue = <<>>
    /\ allowlist = <<>>
    /\ ptime = 0
    /\ plast = [op |-> "init"]
    /\ helper = [fn |-> "none"]
    /\ InitFront

SpecBackfill == InitBackfill /\ [][NextBackfill]_vars /\ WF_vars(NextBackfill)

SpecFetchNode == Init /\ [][FetchNode]_vars

-----------------------------------------------------------------------------

(* add_resource calls one after another on a store that starts empty *)

V == <<"v">>

\* payloads with a non-empty title
SequentialPayloads ==
    {P(t, u, n) : t \in {A, B}, u \in {None, U, V}, n \in {None, N}}

InitSequential ==
    /\ env = NominalEnv
    /\ store = <<>>
    /\ svc = "uncached"
    /\ clock = 1
    /\ calls = 0
    /\ bf = Idle
    /\ last = [op |-> "init"]
    /\ pcfg = [ttl |-> 1, limit |-> 1]
    /\ queue = <<>>
    /\ allowlist = <<>>
    /\ ptime = 0
    /\ plast = [op |-> "init"]
    /\ helper = [fn |-> "none"]
    /\ InitFront

\* SupabaseResourceClient.add_resource; the provider delivers a vector of the
\* configured length and the store echoes every write
AddSequential ==
    /\ calls < MaxAdds
    /\ \E payload \in SequentialPayloads :
        \E r \in {add_resource(store, clock, svc, env, payload, GoodVector(env.D), TRUE,
                               "none")} :
            /\ store' = r.store
            /\ svc' = r.cache
            /\ last' = AddObserved("client", payload,
                                   [outcome |-> GoodVector(env.D), mode |-> Echo],
                                   store, r)
    /\ clock' = clock + 1
    /\ calls' = calls + 1
    /\ UNCHANGED <<env, bf, pairingVars, helper, frontVars>>

SpecSequential == InitSequential /\ [][AddSequential]_vars

-----------------------------------------------------------------------------
(* Two add_resource calls in flight: src/src/tools/supabase_client.py *)

\* variant of the write that is refused when the matched row changed after
\* the lookup read it
WriteVersioned(rows, now, cache, settings, payload, found) ==
    IF found.row # <<>> /\ RowsWhere(rows, "id", found.row[1].id) # found.row
    THEN Raised(rows, cache, found.selects)
    ELSE AfterLookup(rows, now, cache, settings, payload, GoodVector(settings.D), TRUE,
                     "none", normalise_string_list(payload.tags),
                     normalise_string_list(payload.categories), found)

\* add_resource after _find_existing_row returned: everything from the
\* embedding on acts on the row the lookup saw, and the write goes by its id
WriteAfterLookup(rows, now, cache, settings, payload, found) ==
    AfterLookup(rows, now, cache, settings, payload, GoodVector(settings.D), TRUE,
                "none", normalise_string_list(payload.tags),
                normalise_string_list(payload.categories), found)

Callers == {1, 2}

RacePayloads ==
    {[title |-> B, url |-> U, notes |-> <<"x">>, tags |-> NoneList, categories |-> NoneList],
     [title |-> B, url |-> U, notes |-> <<"y">>, tags |-> << <<"g">> >>,
      categories |-> NoneList],
     [title |-> B, url |-> None, notes |-> None, tags |-> << <<"h">> >>,
      categories |-> << <<"d">> >>],
     [title |-> <<"c">>, url |-> None, notes |-> <<"x">>, tags |-> NoneList,
      categories |-> NoneList]}

Waiting(payload) ==
    [pc |-> "start", payload |-> payload, found |-> <<>>, raised |-> FALSE,
     written |-> <<>>]

\* both callers hold their payload and have not reached the store yet
InitRace ==
    /\ env = NominalEnv
    /\ store = BaseRows(MaxRows, NominalEnv.D)
    /\ svc = "uncached"
    /\ clock = MaxRows + 2
    /\ calls = 0
    /\ bf = Idle
    /\ last = [op |-> "init"]
    /\ pcfg = [ttl |-> 1, limit |-> 1]
    /\ queue = <<>>
    /\ allowlist = <<>>
    /\ ptime = 0
    /\ plast = [op |-> "init"]
    /\ helper = [fn |-> "none"]
    /\ \E p1 \in RacePayloads, p2 \in RacePayloads :
        race = [pc |-> "racing", callers |-> <<Waiting(p1), Waiting(p2)>>, order |-> <<>>]
    /\ bot = NoBot
    /\ web = NoWeb

\* one caller's "existing_row = self._find_existing_row(payload)"
RaceLookup ==
    /\ race.pc = "racing"
    /\ \E p \in Callers :
        /\ race.callers[p].pc = "start"
        /\ race' = [race EXCEPT !.callers[p].pc = "found",
                                !.callers[p].found =
                                    _find_existing_row(store, race.callers[p].payload)]
    /\ UNCHANGED <<store, env, svc, clock, calls, bf, last, pairingVars, helper, bot, web>>

\* the rest of that caller's add_resource, on the store as it is by then
RaceWrite ==
    /\ race.pc = "racing"
    /\ \E p \in Callers :
        /\ race.callers[p].pc = "found"
        /\ \E r \in {WriteAfterLookup(store, clock, svc, env, race.callers[p].payload,
                                      race.callers[p].found)} :
            /\ store' = r.store
            /\ svc' = r.cache
            /\ race' = [race EXCEPT !.callers[p].pc = "done",
                                    !.callers[p].raised = r.raised,
                                    !.callers[p].written = r.written,
                                    !.order = Append(race.order, p)]
    /\ clock' = clock + 1
    /\ UNCHANGED <<env, calls, bf, last, pairingVars, helper, bot, web>>

NextRace == RaceLookup \/ RaceWrite

SpecRace == InitRace /\ [][NextRace]_vars

-----------------------------------------------------------------------------
(* Pairing store: src/src/pairing/store.py *)

MaxPreviewLen == 200

\* pairing codes, shortened to two characters of PAIRING_ALPHABET
Codes == {<<"A", "2">>, <<"B", "3">>, <<"C", "4">>}

\* PendingRequest.from_dict: an empty message_preview is read back as None
from_dict(item) ==
    [item EXCEPT !.message_preview =
        IF Truthy(item.message_preview) THEN item.message_preview ELSE None]

_load_pending(file) == [i \in 1..Len(file) |-> from_dict(file[i])]

\* _trim_preview: " ".join(value.split()), cut to 200 characters
_trim_preview(value) ==
    IF ~Truthy(value) THEN None
    ELSE IF Len(StripAll(CollapseWhitespace(value))) <= MaxPreviewLen
    THEN StripAll(CollapseWhitespace(value))
    ELSE SubSeq(StripAll(CollapseWhitespace(value)), 1, MaxPreviewLen - 1) \o Ellipsis

\* a purge that keeps every request
PurgeNothing(reqs, at, ttl) == reqs

\* _purge_expired: the requests with requested_at >= at - ttl
_purge_expired(reqs, at, ttl) ==
    SelectSeq(reqs, LAMBDA req : req.requested_at >= at - ttl)

\* the file after _purge_expired: rewritten only when a request was dropped
PurgedFile(file, retained) == IF Len(retained) # Len(file) THEN retained ELSE file

\* _generate_code: any code not in existing
_generate_code(existing) == Codes \ existing

\* next(req for req in pending if req.user_id == user_id)
FirstOfUser(reqs, user_id) == SelectSeq(reqs, LAMBDA req : req.user_id = user_id)[1]

HasUser(entries, user_id) == \E i \in 1..Len(entries) : entries[i].user_id = user_id

NewRequest(code, user_id, at, message_preview) ==
    [code |-> code, user_id |-> user_id, requested_at |-> at,
     message_preview |-> _trim_preview(message_preview)]

\* a registration that never reuses a pending request
RegisterWithoutReuse(file, retained, at, limit, user_id, message_preview) ==
    IF Len(retained) >= limit
    THEN {[queue |-> PurgedFile(file, retained), request |-> <<>>,
           created |-> FALSE, raised |-> "PairingLimitReached",
           purged |-> Len(file) - Len(retained)]}
    ELSE {[queue |-> Append(retained, NewRequest(code, user_id, at, message_preview)),
           request |-> <<NewRequest(code, user_id, at, message_preview)>>,
           created |-> TRUE, raised |-> "none", purged |-> Len(file) - Len(retained)] :
            code \in _generate_code({retained[i].code : i \in 1..Len(retained)})}

\* a registration that never refuses for a full queue
RegisterWithoutLimit(file, retained, at, limit, user_id, message_preview) ==
    IF HasUser(retained, user_id)
    THEN {[queue |-> PurgedFile(file, retained),
           request |-> <<FirstOfUser(retained, user_id)>>,
           created |-> FALSE, raised |-> "none", purged |-> Len(file) - Len(retained)]}
    ELSE {[queue |-> Append(retained, NewRequest(code, user_id, at, message_preview)),
           request |-> <<NewRequest(code, user_id, at, message_preview)>>,
           created |-> TRUE, raised |-> "none", purged |-> Len(file) - Len(retained)] :
            code \in _generate_code({retained[i].code : i \in 1..Len(retained)})}

\* register_request after the purge: the outcomes the code generator allows
RegisterRetained(file, retained, at, limit, user_id, message_preview) ==
    IF HasUser(retained, user_id)
    THEN {[queue |-> PurgedFile(file, retained),
           request |-> <<FirstOfUser(retained, user_id)>>,
           created |-> FALSE, raised |-> "none", purged |-> Len(file) - Len(retained)]}
    ELSE IF Len(retained) >= limit
    THEN {[queue |-> PurgedFile(file, retained), request |-> <<>>,
           created |-> FALSE, raised |-> "PairingLimitReached",
           purged |-> Len(file) - Len(retained)]}
    ELSE {[queue |-> Append(retained, NewRequest(code, user_id, at, message_preview)),
           request |-> <<NewRequest(code, user_id, at, message_preview)>>,
           created |-> TRUE, raised |-> "none", purged |-> Len(file) - Len(retained)] :
            code \in _generate_code({retained[i].code : i \in 1..Len(retained)})}

register_request(file, at, cfg, user_id, message_preview) ==
    RegisterRetained(file, _purge_expired(_load_pending(file), at, cfg.ttl), at,
                     cfg.limit, user_id, message_preview)

\* a case-sensitive comparison of codes
MatchingExactly(reqs, code) == SelectSeq(reqs, LAMBDA req : req.code = code)

\* the requests the loop of approve / reject assigns and keeps
Matching(reqs, code) == SelectSeq(reqs, LAMBDA req : Lower(req.code) = Lower(code))
Remaining(reqs, code) == SelectSeq(reqs, LAMBDA req : Lower(req.code) # Lower(code))

\* an allowlist append without the membership test
AppendAllowlistEntry(entries, user_id, at) ==
    Append(entries, [user_id |-> user_id, approved_at |-> at])

\* _add_allowlist_entry
_add_allowlist_entry(entries, user_id, at) ==
    IF HasUser(entries, user_id) THEN entries
    ELSE Append(entries, [user_id |-> user_id, approved_at |-> at])

\* approve after _load_pending; the last matching request is the one approved
ApproveLoaded(file, reqs, entries, at, code, matching) ==
    IF matching = <<>>
    THEN [queue |-> file, allowlist |-> entries, request |-> <<>>,
          raised |-> "PairingCodeNotFound"]
    ELSE [queue |-> Remaining(reqs, code),
          allowlist |-> _add_allowlist_entry(entries, matching[Len(matching)].user_id,
                                             at),
          request |-> <<matching[Len(matching)]>>, raised |-> "none"]

approve(file, entries, at, code) ==
    ApproveLoaded(file, _load_pending(file), entries, at, code,
                  Matching(_load_pending(file), code))

\* a reject that leaves the file as it is
RejectWithoutWrite(file, reqs, code, matching) ==
    IF matching = <<>>
    THEN [queue |-> file, request |-> <<>>, raised |-> "PairingCodeNotFound"]
    ELSE [queue |-> file, request |-> <<matching[Len(matching)]>>, raised |-> "none"]

\* reject after _load_pending
RejectLoaded(file, reqs, code, matching) ==
    IF matching = <<>>
    THEN [queue |-> file, request |-> <<>>, raised |-> "PairingCodeNotFound"]
    ELSE [queue |-> Remaining(reqs, code), request |-> <<matching[Len(matching)]>>,
          raised |-> "none"]

reject(file, code) ==
    RejectLoaded(file, _load_pending(file), code, Matching(_load_pending(file), code))

is_allowed(entries, user_id) == HasUser(entries, user_id)

\* revoke: the allowlist without the user's entries
revoke(entries, user_id) == SelectSeq(entries, LAMBDA entry : entry.user_id # user_id)

\* sorted(pending, key=requested_at): a stable insertion sort
RECURSIVE InsertByTime(_, _)
InsertByTime(sorted, req) ==
    IF sorted = <<>> THEN <<req>>
    ELSE IF sorted[Len(sorted)].requested_at <= req.requested_at
    THEN Append(sorted, req)
    ELSE Append(InsertByTime(SubSeq(sorted, 1, Len(sorted) - 1), req), sorted[Len(sorted)])

RECURSIVE SortedByTime(_)
SortedByTime(reqs) ==
    IF reqs = <<>> THEN <<>>
    ELSE InsertByTime(SortedByTime(SubSeq(reqs, 1, Len(reqs) - 1)), reqs[Len(reqs)])

\* list_pending: [queue, listed]
list_pending(file, at, ttl) ==
    [queue |-> PurgedFile(file, _purge_expired(_load_pending(file), at, ttl)),
     listed |-> SortedByTime(_purge_expired(_load_pending(file), at, ttl))]

(* Input domains of the pairing store *)

Users == 1..MaxUsers

\* the time-to-live and the queue limit the store is constructed with
Ttls == {1}
PairingConfigs == [ttl : Ttls, limit : 1..MaxPending]

\* the preview each user sends with a message
PreviewOf(user_id) ==
    CASE user_id = 1 -> None
      [] user_id = 2 -> <<" ">>
      [] OTHER -> <<" ", "h", " ", " ", "i", "\n">>

\* codes an operator may type: the codes, a lowercased one, and an unknown one
TypedCodes == Codes \cup {<<"a", "2">>, <<"Z", "9">>}

(* The pairing store's operations *)

InitPairing ==
    /\ env = NominalEnv
    /\ store = <<>>
    /\ svc = "uncached"
    /\ clock = 1
    /\ calls = 0
    /\ bf = Idle
    /\ last = [op |-> "init"]
    /\ pcfg \in PairingConfigs
    /\ queue = <<>>
    /\ allowlist = <<>>
    /\ ptime = 0
    /\ plast = [op |-> "init"]
    /\ helper = [fn |-> "none"]
    /\ InitFront

RegisterRequest ==
    /\ \E user_id \in Users :
        \E r \in register_request(queue, ptime, pcfg, user_id, PreviewOf(user_id)) :
            /\ queue' = r.queue
            /\ plast' = [op |-> "register_request", user_id |-> user_id,
                         request |-> r.request, created |-> r.created,
                         raised |-> r.raised, purged |-> r.purged]
    /\ UNCHANGED <<pcfg, allowlist, ptime, engineVars, helper, frontVars>>

Approve ==
    /\ \E code \in TypedCodes :
        \E r \in {approve(queue, allowlist, ptime, code)} :
            /\ queue' = r.queue
            /\ allowlist' = r.allowlist
            /\ plast' = [op |-> "approve", code |-> code, request |-> r.request,
                         raised |-> r.raised]
    /\ UNCHANGED <<pcfg, ptime, engineVars, helper, frontVars>>

Reject ==
    /\ \E code \in TypedCodes :
        \E r \in {reject(queue, code)} :
            /\ queue' = r.queue
            /\ plast' = [op |-> "reject", code |-> code, request |-> r.request,
                         raised |-> r.raised]
    /\ UNCHANGED <<pcfg, allowlist, ptime, engineVars, helper, frontVars>>

IsAllowed ==
    /\ \E user_id \in Users :
        plast' = [op |-> "is_allowed", user_id |-> user_id,
                  allowed |-> is_allowed(allowlist, user_id)]
    /\ UNCHANGED <<pcfg, queue, allowlist, ptime, engineVars, helper, frontVars>>

Revoke ==
    /\ \E user_id \in Users :
        /\ allowlist' = revoke(allowlist, user_id)
        /\ plast' = [op |-> "revoke", user_id |-> user_id]
    /\ UNCHANGED <<pcfg, queue, ptime, engineVars, helper, frontVars>>

ListPending ==
    /\ \E r \in {list_pending(queue, ptime, pcfg.ttl)} :
        /\ queue' = r.queue
        /\ plast' = [op |-> "list_pending", listed |-> r.listed]
    /\ UNCHANGED <<pcfg, allowlist, ptime, engineVars, helper, frontVars>>

\* the clock moves on between calls
Tick ==
    /\ ptime < MaxTime
    /\ ptime' = ptime + 1
    /\ plast' = [op |-> "tick"]
    /\ UNCHANGED <<pcfg, queue, allowlist, engineVars, helper, frontVars>>

NextPairing ==
    RegisterRequest \/ Approve \/ Reject \/ IsAllowed \/ Revoke \/ ListPending \/ Tick

SpecPairing == InitPairing /\ [][NextPairing]_vars

-----------------------------------------------------------------------------
(* Telegram bot: src/src/transport/telegram_bot.py *)

\* "message.from_user.id if message.from_user else None": sender 0 is a
\* message without from_user, whose id reads as None
Senders == 0..MaxUsers

\* variant of the message handler that answers every sender with an id
HandleMessageUnchecked(entries, chat, text, sender) ==
    IF chat \notin {"private", "supergroup"} THEN "dm_only"
    ELSE IF ~Truthy(text) THEN "plain_text"
    ELSE IF sender = 0 THEN "no_profile"
    ELSE "respond"

\* _handle_message: the gate the message stops at, or the branch it takes
_handle_message(entries, chat, text, sender) ==
    IF chat \notin {"private", "supergroup"} THEN "dm_only"
    ELSE IF ~Truthy(text) THEN "plain_text"
    ELSE IF sender = 0 THEN "no_profile"
    ELSE IF ~is_allowed(entries, sender) THEN "unpaired"
    ELSE "respond"

\* _handle_unpaired_user: register_request and the answer that follows it
_handle_unpaired_user(file, at, cfg, sender, text) ==
    {[queue |-> r.queue, request |-> r.request,
      outcome |-> IF r.raised = "PairingLimitReached" THEN "queue_full"
                  ELSE IF r.created THEN "pending_new" ELSE "pending_reused",
      admin_notified |-> r.created] :
        r \in register_request(file, at, cfg, sender, text)}

\* _respond_with_agent after the typing action: the agent graph is invoked
\* for a prompt that is not blank
_respond_with_agent(text, typing_ok) ==
    IF ~typing_ok THEN "typing_failed"
    ELSE IF Strip(text) = <<>> THEN "empty_prompt"
    ELSE "invoked"

\* the stores after the command, its answer, the requests the answer shows
\* and the user the command acted on (0: none)
CommandDone(file, entries, outcome, shown) ==
    [queue |-> file, allowlist |-> entries, outcome |-> outcome, shown |-> shown,
     subject |-> IF outcome \in {"approved", "rejected"} THEN shown[1].user_id ELSE 0]

\* "pending = self._store.list_pending()" and the answer
CommandList(entries, r) ==
    CommandDone(r.queue, entries, IF r.listed = <<>> THEN "no_pending" ELSE "listed",
                r.listed)

\* approve <CODE>
CommandApprove(file, entries, r) ==
    IF r.raised = "none" THEN CommandDone(r.queue, r.allowlist, "approved", r.request)
    ELSE CommandDone(file, entries, "code_not_found", <<>>)

\* reject <CODE>
CommandReject(file, entries, r) ==
    IF r.raised = "none" THEN CommandDone(r.queue, entries, "rejected", r.request)
    ELSE CommandDone(file, entries, "code_not_found", <<>>)

\* _pairing_command once the sender is known to be the admin
AdminCommand(args, file, entries, at, cfg) ==
    CASE args.action = "none" -> CommandDone(file, entries, "usage", <<>>)
      [] args.action = "list" -> CommandList(entries, list_pending(file, at, cfg.ttl))
      [] args.action \in {"approve", "reject"} /\ args.code = Missing ->
            CommandDone(file, entries, "usage_code", <<>>)
      [] args.action = "approve" /\ args.code # Missing ->
            CommandApprove(file, entries, approve(file, entries, at, args.code))
      [] args.action = "reject" /\ args.code # Missing ->
            CommandReject(file, entries, reject(file, args.code))
      [] args.action = "revoke" /\ args.target = 0 ->
            CommandDone(file, entries, "usage_revoke", <<>>)
      [] args.action = "revoke" /\ args.target # 0 ->
            [CommandDone(file, revoke(entries, args.target), "revoked", <<>>)
                EXCEPT !.subject = args.target]
      [] OTHER -> CommandDone(file, entries, "unknown_action", <<>>)

\* variant of the command that serves every sender
PairingCommandOpen(admin, sender, args, file, entries, at, cfg) ==
    AdminCommand(args, file, entries, at, cfg)

\* _pairing_command: "if user_id != self._admin_id"
_pairing_command(admin, sender, args, file, entries, at, cfg) ==
    IF sender # admin THEN CommandDone(file, entries, "only_admins", <<>>)
    ELSE AdminCommand(args, file, entries, at, cfg)

\* _handle_status for a sender who is not on the allowlist
StatusOfUnpaired(sender, r) ==
    [queue |-> r.queue,
     outcome |-> IF HasUser(r.listed, sender) THEN "pending" ELSE "not_paired"]

\* _handle_status
_handle_status(file, entries, at, cfg, sender) ==
    IF sender = 0 THEN [queue |-> file, outcome |-> "no_id"]
    ELSE IF is_allowed(entries, sender) THEN [queue |-> file, outcome |-> "approved"]
    ELSE StatusOfUnpaired(sender, list_pending(file, at, cfg.ttl))

(* Input domains of the bot *)

\* messages reaching the catch-all handler: [chat, text, sender]
Messages ==
    {[chat |-> "group", text |-> <<"h", "i">>, sender |-> 1],
     [chat |-> "private", text |-> None, sender |-> 1],
     [chat |-> "supergroup", text |-> <<"h", "i">>, sender |-> 0]}
    \cup {[chat |-> "private", text |-> <<" ">>, sender |-> 1]}
    \cup {[chat |-> "private", text |-> <<"h", "i">>, sender |-> u] : u \in Users}

\* the words after /pairing: target 0 and code Missing stand for a missing
\* second word
PairingArgs ==
    {[action |-> a, code |-> Missing, target |-> 0] :
        a \in {"none", "list", "approve", "revoke", "other"}}
    \cup {[action |-> "approve", code |-> c, target |-> 0] :
            c \in {<<"A", "2">>, <<"a", "2">>, <<"B", "3">>}}
    \cup {[action |-> "reject", code |-> <<"A", "2">>, target |-> 0]}
    \cup {[action |-> "revoke", code |-> Missing, target |-> u] : u \in Users}

(* The bot's handlers *)

InitBot ==
    /\ env = NominalEnv
    /\ store = <<>>
    /\ svc = "uncached"
    /\ clock = 1
    /\ calls = 0
    /\ bf = Idle
    /\ last = [op |-> "init"]
    /\ pcfg \in PairingConfigs
    /\ queue = <<>>
    /\ allowlist = <<>>
    /\ ptime = 0
    /\ plast = [op |-> "init"]
    /\ helper = [fn |-> "none"]
    /\ race = NoRace
    \* TELEGRAM_ADMIN_ID; the users are interchangeable, so user 1 is the admin
    /\ bot = [NoBot EXCEPT !.admin = 1]
    /\ web = NoWeb

Seen(handler, sender, outcome) ==
    [handler |-> handler, sender |-> sender, outcome |-> outcome]

\* a message that stops at a gate of _handle_message
BotIgnores ==
    /\ \E m \in Messages :
        \E route \in {_handle_message(allowlist, m.chat, m.text, m.sender)} :
            /\ route \in {"dm_only", "plain_text", "no_profile"}
            /\ bot' = [bot EXCEPT !.last = Seen("message", m.sender, route)]
    /\ UNCHANGED <<engineVars, pairingVars, helper, race, web>>

\* a message of a sender who is not on the allowlist
BotRegisters ==
    /\ \E m \in Messages :
        /\ _handle_message(allowlist, m.chat, m.text, m.sender) = "unpaired"
        /\ \E r \in _handle_unpaired_user(queue, ptime, pcfg, m.sender, m.text) :
            /\ queue' = r.queue
            /\ bot' = [bot EXCEPT !.last = Seen("message", m.sender, r.outcome)]
    /\ UNCHANGED <<engineVars, pcfg, allowlist, ptime, plast, helper, race, web>>

\* a message of a sender on the allowlist, up to the await of the typing
\* action in _respond_with_agent
BotStartsTyping ==
    /\ Cardinality(bot.typing) < MaxInFlight
    /\ \E m \in Messages :
        /\ _handle_message(allowlist, m.chat, m.text, m.sender) = "respond"
        /\ bot' = [bot EXCEPT !.typing = @ \cup {[user |-> m.sender, text |-> m.text]},
                              !.last = Seen("message", m.sender, "typing")]
    /\ UNCHANGED <<engineVars, pairingVars, helper, race, web>>

\* _respond_with_agent after that await: the prompt test and graph.ainvoke
BotResponds ==
    /\ \E message \in bot.typing, typing_ok \in BOOLEAN :
        bot' = [bot EXCEPT !.typing = @ \ {message},
                           !.last = Seen("respond", message.user,
                                         _respond_with_agent(message.text, typing_ok))]
    /\ UNCHANGED <<engineVars, pairingVars, helper, race, web>>

\* /pairing ...
BotPairing ==
    /\ \E sender \in Senders, args \in PairingArgs :
        \E r \in {_pairing_command(bot.admin, sender, args, queue, allowlist, ptime,
                                   pcfg)} :
            /\ queue' = r.queue
            /\ allowlist' = r.allowlist
            /\ bot' = [bot EXCEPT !.last = [handler |-> "pairing", sender |-> sender,
                                            outcome |-> r.outcome,
                                            subject |-> r.subject,
                                            revealed |-> r.shown # <<>>]]
    /\ UNCHANGED <<engineVars, pcfg, ptime, plast, helper, race, web>>

\* /status (and /start, which ends in it)
BotStatus ==
    /\ \E sender \in Senders :
        \E r \in {_handle_status(queue, allowlist, ptime, pcfg, sender)} :
            /\ queue' = r.queue
            /\ bot' = [bot EXCEPT !.last = Seen("status", sender, r.outcome)]
    /\ UNCHANGED <<engineVars, pcfg, allowlist, ptime, plast, helper, race, web>>

\* the clock moves on between updates
BotTick ==
    /\ ptime < MaxTime
    /\ ptime' = ptime + 1
    /\ bot' = [bot EXCEPT !.last = [handler |-> "tick"]]
    /\ UNCHANGED <<engineVars, pcfg, queue, allowlist, plast, helper, race, web>>

NextBot ==
    BotIgnores \/ BotRegisters \/ BotStartsTyping \/ BotResponds \/ BotPairing
    \/ BotStatus \/ BotTick

SpecBot == InitBot /\ [][NextBot]_vars

-----------------------------------------------------------------------------
(* WhatsApp bridge: src/src/interfaces/whatsapp/app.py *)

\* the JSON answer of the webhook, the calls the handler made in order
\* ("ainvoke", "send_text") and the text it sent
Reply(code, state, reason, called, sent) ==
    [code |-> code, status |-> state, reason |-> reason, called |-> called,
     sent |-> sent]

\* verify_secret: TRUE when it raises HTTPException(401)
verify_secret(secret, x_wppconnect_secret) ==
    Truthy(secret) /\ x_wppconnect_secret # secret

\* "(message.get("body") or message.get("text") or "").strip()"
TextContent(message) ==
    Strip(IF Truthy(message.body) THEN message.body
          ELSE IF Truthy(message.text) THEN message.text
          ELSE <<>>)

\* the text of the agent's last message, stripped; "" without messages
ResponseText(agent) ==
    CASE agent = "reply" -> <<"o", "k">>
      [] agent = "blank" -> Strip(<<" ">>)
      [] OTHER -> <<>>

\* the fallback answer "I wasn't able to generate a response just now."
Fallback == <<"f", "a", "l", "l", "b", "a", "c", "k">>

\* handle_webhook from "client.send_text(...)" on
Deliver(response_text, send) ==
    IF send = "raises"
    THEN Reply(502, "error", "delivery_failed", <<"ainvoke", "send_text">>,
               response_text)
    ELSE Reply(200, "ok", "none", <<"ainvoke", "send_text">>, response_text)

\* handle_webhook from "graph.ainvoke(...)" on
Answer(agent, send) ==
    IF agent = "raises"
    THEN Reply(500, "error", "agent_failure", <<"ainvoke">>, <<>>)
    ELSE Deliver(IF Truthy(ResponseText(agent)) THEN ResponseText(agent)
                 ELSE Fallback, send)

\* handle_webhook from "message = payload.data or {}" on; a key the message
\* lacks reads as None, a flag it lacks as FALSE
HandleData(message, agent, send) ==
    IF message.fromMe THEN Reply(200, "skipped", "self_message", <<>>, <<>>)
    ELSE IF message.isGroupMsg THEN Reply(200, "skipped", "group_message", <<>>, <<>>)
    ELSE IF ~Truthy(TextContent(message))
    THEN Reply(200, "skipped", "empty_content", <<>>, <<>>)
    ELSE Answer(agent, send)

\* "payload.data or {}"
NoData == [fromMe |-> FALSE, isGroupMsg |-> FALSE, body |-> None, text |-> None]

\* variant of the webhook that answers every event
HandleWebhookAnyEvent(cfg, header, payload, agent, send) ==
    IF verify_secret(cfg.secret, header)
    THEN Reply(401, "error", "invalid_secret", <<>>, <<>>)
    ELSE IF Truthy(payload.session) /\ Truthy(cfg.session)
            /\ payload.session # cfg.session
    THEN Reply(202, "ignored", "session_mismatch", <<>>, <<>>)
    ELSE HandleData(payload.data, agent, send)

\* POST /webhooks/wppconnect: the dependency verify_secret, then handle_webhook
handle_webhook(cfg, header, payload, agent, send) ==
    IF verify_secret(cfg.secret, header)
    THEN Reply(401, "error", "invalid_secret", <<>>, <<>>)
    ELSE IF Truthy(payload.session) /\ Truthy(cfg.session)
            /\ payload.session # cfg.session
    THEN Reply(202, "ignored", "session_mismatch", <<>>, <<>>)
    ELSE IF payload.event \notin {"onMessage", "onAnyMessage"}
    THEN Reply(202, "ignored", "unsupported_event", <<>>, <<>>)
    ELSE HandleData(payload.data, agent, send)

(* Input domains of the bridge *)

W == <<"w">>
X == <<"x">>
Hi == <<"h", "i">>

\* settings: the webhook secret is optional, the session is required by
\* startup_event
BridgeSettings ==
    {[secret |-> s, session |-> W] : s \in {None, <<>>, X}}

Headers == {None, X, W}

WebMessages ==
    {NoData,
     [NoData EXCEPT !.body = Hi],
     [NoData EXCEPT !.text = Hi],
     [NoData EXCEPT !.body = <<" ">>, !.text = Hi],
     [NoData EXCEPT !.body = <<>>],
     [NoData EXCEPT !.body = Hi, !.fromMe = TRUE],
     [NoData EXCEPT !.body = Hi, !.isGroupMsg = TRUE],
     [NoData EXCEPT !.body = Hi, !.fromMe = TRUE, !.isGroupMsg = TRUE]}

WebhookPayloads ==
    {[event |-> e, session |-> s, data |-> d] :
        e \in {"onMessage", "onAnyMessage", "onAck"},
        s \in {None, <<>>, W, X},
        d \in WebMessages}

AgentOutcomes == {"reply", "blank", "no_messages", "raises"}

SendOutcomes == {"sent", "raises"}

(* The bridge handling one request after another *)

InitWebhook ==
    /\ env = NominalEnv
    /\ store = <<>>
    /\ svc = "uncached"
    /\ clock = 1
    /\ calls = 0
    /\ bf = Idle
    /\ last = [op |-> "init"]
    /\ pcfg = [ttl |-> 1, limit |-> 1]
    /\ queue = <<>>
    /\ allowlist = <<>>
    /\ ptime = 0
    /\ plast = [op |-> "init"]
    /\ helper = [fn |-> "none"]
    /\ race = NoRace
    /\ bot = NoBot
    /\ \E cfg \in BridgeSettings : web = [op |-> "started", cfg |-> cfg]

Webhook ==
    /\ \E header \in Headers, payload \in WebhookPayloads,
          agent \in AgentOutcomes, send \in SendOutcomes :
        \E r \in {handle_webhook(web.cfg, header, payload, agent, send)} :
            web' = [op |-> "webhook", cfg |-> web.cfg, header |-> header,
                    payload |-> payload,
                    agent |-> IF r.called = <<>> THEN "not_invoked" ELSE agent,
                    reply |-> r]
    /\ UNCHANGED <<engineVars, pairingVars, helper, race, bot>>

SpecWebhook == InitWebhook /\ [][Webhook]_vars

-----------------------------------------------------------------------------
(* Intent normalisation and the agent's helpers: src/src/agent/graph.py *)

MaxLimitInput == 40

StoreResourceKey == <<"s", "t", "o", "r", "e", "_", "r", "e", "s", "o", "u", "r", "c", "e">>
FetchResourceKey == <<"f", "e", "t", "c", "h", "_", "r", "e", "s", "o", "u", "r", "c", "e">>
ChatKey == <<"c", "h", "a", "t">>

\* the keys of the conditional edges out of "classify"
RouteKeys == {StoreResourceKey, FetchResourceKey, ChatKey}

\* the alias sets tested by _normalise_intent
StoreAliases == {<<"s", "t", "o", "r", "e">>, <<"s", "a", "v", "e">>, StoreResourceKey, <<"a", "d", "d">>}
FetchAliases == {<<"f", "e", "t", "c", "h">>, <<"r", "e", "t", "r", "i", "e", "v", "e">>, <<"s", "e", "a", "r", "c", "h">>, FetchResourceKey}

\* _normalise_intent of [kind, str]: a str, or any other value
_normalise_intent(intent) ==
    IF intent.kind # "str" THEN ChatKey
    ELSE IF Strip(Lower(intent.str)) \in StoreAliases THEN StoreResourceKey
    ELSE IF Strip(Lower(intent.str)) \in FetchAliases THEN FetchResourceKey
    ELSE ChatKey

(* Input domains of the helpers *)

Recommend == <<"r", "e", "c", "o", "m", "m", "e", "n", "d">>

IntentTexts ==
    {<<"S", "t", "o", "r", "e">>, <<"F", "E", "T", "C", "H">>, ChatKey, Recommend, <<"s", "a", "v", "e">>, <<"A", "d", "d">>, <<"r", "e", "t", "r", "i", "e", "v", "e">>,
     <<"S", "e", "a", "r", "c", "h">>, StoreResourceKey, <<"F", "E", "T", "C", "H", "_", "R", "E", "S", "O", "U", "R", "C", "E">>, <<" ", "f", "e", "t", "c", "h", " ">>, <<"S", "A", "V", "E">>,
     <<"R", "e", "c", "o", "m", "m", "e", "n", "d">>, <<"s", "t", "o", "r", "i", "n", "g">>, <<>>}

IntentValues ==
    {[kind |-> "str", str |-> t] : t \in IntentTexts}
    \cup {[kind |-> "other", str |-> <<>>]}

LimitTexts ==
    {<<"0">>, <<"1">>, <<"7">>, <<"2", "5">>, <<"2", "6">>, <<"1", "0", "0">>,
     <<" ", "3", " ">>, <<"0", "0">>, <<"-", "1">>, <<"3", ".", "5">>, <<>>,
     <<"n", "o", "t", "-", "a", "-", "n", "u", "m", "b", "e", "r">>}

LimitValues ==
    {[kind |-> "int", int |-> n, str |-> <<>>] : n \in (0 - MaxLimitInput)..MaxLimitInput}
    \cup {[kind |-> "str", int |-> 0, str |-> t] : t \in LimitTexts}
    \cup {[kind |-> "other", int |-> 0, str |-> <<>>]}

(* Calls of the helpers *)

InitHelpers ==
    /\ env = NominalEnv
    /\ store = <<>>
    /\ svc = "uncached"
    /\ clock = 1
    /\ calls = 0
    /\ bf = Idle
    /\ last = [op |-> "init"]
    /\ pcfg = [ttl |-> 1, limit |-> 1]
    /\ queue = <<>>
    /\ allowlist = <<>>
    /\ ptime = 0
    /\ plast = [op |-> "init"]
    /\ helper = [fn |-> "none"]
    /\ InitFront

NormaliseIntent ==
    /\ \E intent \in IntentValues :
        helper' = [fn |-> "_normalise_intent", arg |-> intent,
                   out |-> _normalise_intent(intent)]
    /\ UNCHANGED <<engineVars, pairingVars, frontVars>>

CoerceLimit ==
    /\ \E value \in LimitValues :
        helper' = [fn |-> "_coerce_limit", arg |-> value, out |-> _coerce_limit(value)]
    /\ UNCHANGED <<engineVars, pairingVars, frontVars>>

\* elements a caller may put in a tag or category list
StringItems == {None, <<>>, <<" ">>, <<" ", "a", "i", " ">>, <<"a", "g", "e", "n", "t", "s">>}

MaxListLen == 3

StringLists ==
    {NoneList} \cup UNION {[1..n -> StringItems] : n \in 0..MaxListLen}

NormaliseStringList ==
    /\ \E values \in StringLists :
        helper' = [fn |-> "normalise_string_list", arg |-> values,
                   out |-> normalise_string_list(values)]
    /\ UNCHANGED <<engineVars, pairingVars, frontVars>>
\* raw keywords: plural endings, a short word, hyphens, padding, inner space
KeywordTexts ==
    {<<"t", "i", "e", "s">>, <<"B", "o", "x", "e", "s">>, <<"s", "t", "a", "r", "t", "u", "p", "s">>, <<"g", "a", "s">>, <<"e", "-", "m", "a", "i", "l">>, <<"a", "-">>, <<" ", "C", "a", "t", "s", " ">>,
     <<"b", "u", "s", " ", "e", "s">>}

MaxKeywords == 2

\* keywords that derive one another's forms when listed together
RepeatedKeywords == {<<"t", "i", "e", "s">>, <<"a", "-">>, <<"B", "o", "x", "e", "s">>}

KeywordInputs ==
    {<<>>} \cup {<<k>> : k \in KeywordTexts} \cup [1..MaxKeywords -> RepeatedKeywords]

QueryInputs == {None, <<>>, <<" ">>, <<"Y", " ", "C", "o", "m", "b", "i", "n", "a", "t", "o", "r">>, <<"b", "o", "x">>, <<" ", "T", "i", "e", " ">>}

ExpandKeywords ==
    /\ \E keywords \in KeywordInputs, query \in QueryInputs :
        helper' = [fn |-> "_expand_keywords", keywords |-> keywords, query |-> query,
                   out |-> _expand_keywords(keywords, query)]
    /\ UNCHANGED <<engineVars, pairingVars, frontVars>>
\* a message of n characters
Filler(n) == [i \in 1..n |-> "x"]

\* str(error) of the exceptions summarised: indicators in either case, plain
\* reasons, runs of whitespace, nothing at all, and texts around the cap
ErrorTexts ==
    {<<"c", "o", "d", "e", " ", "5", "2", "5", " ", "-", " ", "S", "S", "L", " ", "h", "a", "n", "d", "s", "h", "a", "k", "e", " ", "f", "a", "i", "l", "e", "d", " ", "b", "e", "t", "w", "e", "e", "n", " ", "C", "l", "o", "u", "d", "f", "l", "a", "r", "e", " ", "a", "n", "d", " ", "h", "o", "s", "t">>,
     <<"C", "o", "d", "e", " ", "5", "2", "5">>, <<"t", "l", "s", ":", " ", "S", "S", "L", " ", " ", "\n", " ", "H", "a", "n", "d", "s", "h", "a", "k", "e">>, <<"r", "a", "t", "e", " ", "l", "i", "m", "i", "t", " ", "e", "x", "c", "e", "e", "d", "e", "d">>,
     <<" ", "r", "a", "t", "e", " ", "\n", "\t", " ", "l", "i", "m", "i", "t", " ">>, <<>>, <<" ", "\n">>,
     Filler(MaxReasonLen - 1), Filler(MaxReasonLen), Filler(MaxReasonLen + 1),
     Filler(MaxReasonLen) \o SslHandshake}

\* [text, name, details]; details are the message, code and hint of an APIError
ErrorInputs ==
    {[text |-> t, name |-> <<"T", "i", "m", "e", "o", "u", "t", "E", "r", "r", "o", "r">>, details |-> <<>>] : t \in ErrorTexts}
    \cup {[text |-> <<"i", "g", "n", "o", "r", "e", "d">>, name |-> <<"A", "P", "I", "E", "r", "r", "o", "r">>, details |-> d] :
            d \in {<<<<"b", "a", "d", " ", "g", "a", "t", "e", "w", "a", "y">>, <<"5", "0", "2">>>>, <<<<"u", "p", "s", "t", "r", "e", "a", "m">>, <<"c", "o", "d", "e", " ", "5", "2", "5">>>>,
                   <<Filler(MaxReasonLen), <<"P", "G", "R", "S", "T">>, <<"r", "e", "t", "r", "y">>>>}}

SummariseSemanticError ==
    /\ \E error \in ErrorInputs :
        helper' = [fn |-> "_summarise_semantic_error", arg |-> error,
                   reason |-> _extract_error_message(error),
                   out |-> _summarise_semantic_error(error)]
    /\ UNCHANGED <<engineVars, pairingVars, frontVars>>
NextHelpers ==
    NormaliseIntent \/ CoerceLimit \/ NormaliseStringList \/ ExpandKeywords
    \/ SummariseSemanticError

SpecHelpers == InitHelpers /\ [][NextHelpers]_vars

-----------------------------------------------------------------------------
(* Claims about the hybrid search (checked under SpecSearch) *)

IsFetch == last.op = "fetch"

Ids(records) == {records[i].id : i \in 1..Len(records)}

\* every keyword match of the store for the call's arguments, most recent first
AllKeywordHits ==
    _keyword_search(store, normalise_string_list(last.filter.tags),
                    normalise_string_list(last.filter.categories), last.query,
                    last.keywords, Len(store))

RpcRaised == IsFetch /\ Truthy(last.query) /\ "rpc" \in Range(last.trace)
             /\ last.rpc.kind = "raise"

\* C1: whenever the query is non-empty and the similarity procedure raises,
\* the call does not raise and returns the keyword records truncated to limit
\* with exactly one notice.
C1_RpcFailureFallsBack ==
    RpcRaised =>
        /\ ~last.raised
        /\ last.records = Take(AllKeywordHits, last.limit)
        /\ Len(last.notices) = 1

\* C2: fetch_resources never raises, whatever its remote calls do.
C2_FetchNeverRaises == IsFetch => ~last.raised

\* C3: the number of records returned is at most limit.
C3_AtMostLimit == (IsFetch /\ ~last.raised) => Len(last.records) <= last.limit

C3_Witness ==
    /\ IsFetch /\ ~last.raised
    /\ Len(AllKeywordHits) > last.limit
    /\ last.limit > 0
    /\ Len(last.records) = last.limit

\* C4: the result is the semantic hits in relevance order followed by the
\* keyword hits, in recency order, whose id is not among them; no id twice.
C4_SemanticThenKeyword ==
    (IsFetch /\ ~last.raised) =>
        /\ last.records =
              Take(last.semantic
                   \o SelectSeq(AllKeywordHits, LAMBDA r : r.id \notin Ids(last.semantic)),
                   last.limit)
        /\ Cardinality(Ids(last.records)) = Len(last.records)

C4_Witness ==
    /\ IsFetch /\ ~last.raised
    /\ last.semantic # <<>>
    /\ Len(last.records) > Len(last.semantic)
    /\ Ids(last.semantic) \cap Ids(last.keyword) # {}
    /\ last.semantic[1].created_at < last.semantic[Len(last.semantic)].created_at

-----------------------------------------------------------------------------
(* Claims about the upsert engine and the embedding gateway (checked under Spec) *)

IsAdd == last.op = "add"

Count(trace, call) == Cardinality({i \in 1..Len(trace) : trace[i] = call})

RowsOf(rows) == {rows[i] : i \in 1..Len(rows)}

\* the provider is constructed and answers with a vector of the configured length
ProviderDelivers ==
    /\ env.provider \in {"openai", "ollama"} /\ env.constructOk
    /\ last.outcome = GoodVector(env.D)

\* the embeddable text of the payload and of the row the call matched
PayloadText == _compose_embedding_text(last.payload.title, last.payload.notes,
                                       last.payload.url)
MatchedText == _compose_embedding_text(Str(last.matched[1].title), last.matched[1].notes,
                                       last.matched[1].url)

\* C5: a second add_resource with the payload of the call before it issues no
\* write and returns the record that call returned.
C5_RepeatIsNoWrite ==
    [][(IsAdd /\ ~last.raised /\ last'.op = "add" /\ ~last'.raised
        /\ last'.payload = last.payload)
       => (last'.written = <<>> /\ last'.record = last.record)]_vars

\* the payload differs from the matched row in notes and in nothing else
OnlyNotesDiffer ==
    /\ IsAdd /\ ~last.raised /\ last.matched # <<>>
    /\ last.payload.title = last.matched[1].title
    /\ last.payload.url = last.matched[1].url
    /\ last.payload.notes # last.matched[1].notes

OneEmbeddingOneUpdate ==
    /\ Count(last.trace, "embed") = 1
    /\ Count(last.trace, "update") = 1
    /\ Len(last.written) = 1
    /\ last.written[1].kind = "update"
    /\ "embeddings_vector" \in last.written[1].fields
    /\ last.written[1].vector = Vector(env.D, PayloadText)

NoCallWhenTextEqual ==
    (IsAdd /\ ~last.raised /\ last.matched # <<>> /\ MatchedText = PayloadText)
        => Count(last.trace, "embed") = 0

\* C6 as stated: a payload that differs from the matched row only in notes
\* causes one provider call and one update carrying the new embedding.
C6_NotesChangeReembeds ==
    /\ (OnlyNotesDiffer /\ ProviderDelivers) => OneEmbeddingOneUpdate
    /\ NoCallWhenTextEqual

\* C6 amended: the same, when the payload's embeddable text is non-empty and
\* differs from the matched row's; equal texts cause no provider call.
C6_TextChangeReembeds ==
    /\ (OnlyNotesDiffer /\ ProviderDelivers /\ Truthy(PayloadText)
        /\ PayloadText # MatchedText) => OneEmbeddingOneUpdate
    /\ NoCallWhenTextEqual

C6_Witness ==
    /\ OnlyNotesDiffer /\ ProviderDelivers /\ PayloadText # MatchedText
    /\ OneEmbeddingOneUpdate

C6_WitnessEqualText ==
    OnlyNotesDiffer /\ ProviderDelivers /\ PayloadText = MatchedText

\* the rows of the store before the call whose column equals the payload's
Candidates(column) ==
    IF Truthy(last.payload[column])
    THEN {r \in RowsOf(last.before) : r[column] = last.payload[column]}
    ELSE {}

Newest(rows) == CHOOSE r \in rows : \A q \in rows : q.created_at <= r.created_at

\* C7: the row updated is the newest row with the payload's url, else the
\* newest row with the payload's title, else a new row is inserted.
C7_UrlThenTitle ==
    (IsAdd /\ ~last.raised) =>
        IF Candidates("url") # {}
        THEN last.matched = <<Newest(Candidates("url"))>>
             /\ Len(store) = Len(last.before)
        ELSE IF Candidates("title") # {}
        THEN last.matched = <<Newest(Candidates("title"))>>
             /\ Len(store) = Len(last.before)
        ELSE /\ last.matched = <<>>
             /\ Len(last.written) = 1 /\ last.written[1].kind = "insert"
             /\ Len(store) = Len(last.before) + 1

C7_Witness ==
    /\ IsAdd /\ ~last.raised
    /\ Cardinality(Candidates("url")) > 1
    /\ Candidates("title") # {}
    /\ last.matched # <<>>
    /\ last.matched[1] \notin Candidates("title")

\* every vector the call wrote or sent has the configured length
VectorsHaveLength ==
    /\ (last.op \in {"add", "backfill_row"} /\ ~last.raised) =>
           \A i \in 1..Len(last.written) :
               last.written[i].vector.some => last.written[i].vector.len = env.D
    /\ (IsFetch /\ last.sent.some) => last.sent.len = env.D
    /\ \A i \in 1..Len(store) :
           store[i].embeddings_vector.some => store[i].embeddings_vector.len = env.D

\* C8 as stated: for every configured D, every vector written by add_resource
\* or the backfill script, or sent to the procedure, has length exactly D.
C8_VectorsHaveLengthD == VectorsHaveLength

\* C8 amended: the same for every configured D other than 0.
C8_VectorsHaveNonZeroLengthD == env.D # 0 => VectorsHaveLength

C8_Witness ==
    /\ env.D # 0
    /\ last.op = "backfill_row"
    /\ last.written # <<>>
    /\ last.written[1].vector.len = env.D

C8_WitnessRejected ==
    /\ env.D # 0 /\ IsAdd /\ ~last.raised
    /\ last.outcome.kind = "vector" /\ last.outcome.len # env.D
    /\ Count(last.trace, "embed") = 1
    /\ last.written # <<>> /\ ~last.written[1].vector.some

\* C9: an embedding outage (no provider, or a provider call that raises)
\* never makes add_resource or fetch_resources raise: the call goes on with
\* no vector, and otherwise the provider's vector is what is used.
C9_EmbeddingFailsSoft ==
    /\ (IsAdd /\ last.raised) => last.mode.fault # "none"
    /\ (IsFetch /\ last.fault = "none") => ~last.raised
    /\ (IsFetch /\ last.rpc.kind # "raise") => last.notices = <<>>
    /\ (IsAdd /\ ~last.raised /\ last.written # <<>>) =>
          (last.written[1].vector.some <=>
              /\ Count(last.trace, "embed") = 1
              /\ last.outcome.kind = "vector"
              /\ ~DimensionRejected(last.outcome, env.D))
    /\ (IsAdd /\ Count(last.trace, "embed") = 1) =>
          (env.provider \in {"openai", "ollama"} /\ env.constructOk)

C9_Witness ==
    /\ IsAdd /\ ~last.raised
    /\ last.outcome.kind = "raise"
    /\ Count(last.trace, "embed") = 1
    /\ last.written # <<>>

\* C10: every record the engine produces has a non-empty title.
C10_TitleNonEmpty ==
    /\ IsFetch => \A i \in 1..Len(last.records) : Truthy(last.records[i].title)
    /\ (IsAdd /\ last.via = "node" /\ ~last.raised) => Truthy(last.record[1].title)

-----------------------------------------------------------------------------
(* Round trip and lifecycle of rows *)

\* the first element of a list that is non-empty once trimmed, as a list
RECURSIVE FirstTrimmed(_)
FirstTrimmed(values) ==
    IF values = NoneList \/ values = <<>> THEN <<>>
    ELSE IF Head(values) # None /\ Strip(Head(values)) # <<>>
    THEN <<Strip(Head(values))>>
    ELSE FirstTrimmed(Tail(values))

\* the call inserted a row
Inserted == IsAdd /\ ~last.raised /\ last.written # <<>> /\ last.written[1].kind = "insert"

\* the row the insert put in the store
WrittenRow == CHOOSE r \in RowsOf(store) : r.id = last.written[1].id

\* C11: on the insert path the record converted back from the written row has
\* the payload's title, url and notes, and its tags and categories are exactly
\* the payload's first non-empty trimmed tag and category (empty when there is
\* none); no further element is persisted.
C11_InsertRoundTrip ==
    Inserted =>
        /\ \E r \in RowsOf(store) : r.id = last.written[1].id
        /\ row_to_record(WrittenRow).title = last.payload.title
        /\ row_to_record(WrittenRow).url = last.payload.url
        /\ row_to_record(WrittenRow).notes = last.payload.notes
        /\ row_to_record(WrittenRow).tags = FirstTrimmed(last.payload.tags)
        /\ row_to_record(WrittenRow).categories = FirstTrimmed(last.payload.categories)
        /\ last.mode.echo => last.record[1] = row_to_record(WrittenRow)

\* an insert of a payload with several tags, the first of them blank
C11_Witness ==
    /\ Inserted
    /\ last.payload.tags # NoneList
    /\ Len(last.payload.tags) > 2
    /\ Strip(last.payload.tags[1]) = <<>>
    /\ row_to_record(WrittenRow).tags = <<Strip(last.payload.tags[2])>>

RowIds(rows) == {rows[i].id : i \in 1..Len(rows)}

\* C12: add_resource never deletes a row.  A call that returns after matching
\* a row leaves the number of rows unchanged and the matched row keeps its id;
\* a call that returns without a match adds exactly one row; a call that
\* raises removes nothing; fetch_resources never changes the store.
C12_NeverDeletes ==
    [][/\ last'.op = "add" =>
            /\ RowIds(store) \subseteq RowIds(store')
            /\ (~last'.raised /\ last'.matched # <<>>) =>
                   /\ Len(store') = Len(store)
                   /\ last'.matched[1].id \in RowIds(store')
                   /\ last'.record[1].id = last'.matched[1].id
            /\ (~last'.raised /\ last'.matched = <<>>) => Len(store') = Len(store) + 1
       /\ last'.op = "fetch" => store' = store]_vars

\* a call matched a row and updated it in place
C12_Witness ==
    /\ IsAdd /\ ~last.raised
    /\ last.matched # <<>>
    /\ last.written # <<>> /\ last.written[1].kind = "update"
    /\ Len(store) = Len(last.before)

-----------------------------------------------------------------------------
(* Pairing queue and allowlist *)

\* the stored requests whose age at time t is at most ttl
Unexpired(file, t, ttl) == SelectSeq(_load_pending(file), LAMBDA req : t - req.requested_at <= ttl)

SetOf(seq) == {seq[i] : i \in 1..Len(seq)}

UsersOf(entries) == {entries[i].user_id : i \in 1..Len(entries)}

\* no two entries of the list are of the same user
UniqueUsers(entries) ==
    \A i, j \in 1..Len(entries) : entries[i].user_id = entries[j].user_id => i = j

\* the step is a register_request of a user with an unexpired stored request
ReRegisters ==
    /\ plast'.op = "register_request"
    /\ plast'.user_id \in UsersOf(Unexpired(queue, ptime, pcfg.ttl))

\* C13: register_request for a user who has an unexpired pending request
\* returns that request (same code) with created = FALSE and adds nothing to
\* the queue, and the queue never holds two requests of one user.
C13_RegisterReusesPending ==
    [][/\ ReRegisters =>
            /\ plast'.raised = "none" /\ ~plast'.created
            /\ plast'.request[1] \in SetOf(Unexpired(queue, ptime, pcfg.ttl))
            /\ plast'.request[1].user_id = plast'.user_id
            /\ SetOf(_load_pending(queue')) \subseteq SetOf(_load_pending(queue))
       /\ UniqueUsers(queue')]_vars

\* a user registered again and got the pending request back
C13_Witness ==
    /\ plast.op = "register_request"
    /\ plast.raised = "none" /\ ~plast.created
    /\ plast.request[1] \in SetOf(_load_pending(queue))

\* the step is a register_request of a user without an unexpired request while
\* the unexpired queue is full
RegistersWhenFull ==
    /\ plast'.op = "register_request"
    /\ plast'.user_id \notin UsersOf(Unexpired(queue, ptime, pcfg.ttl))
    /\ Len(Unexpired(queue, ptime, pcfg.ttl)) >= pcfg.limit

\* C14: the number of stored pending requests never exceeds pending_limit, and
\* a register_request of a new user while the unexpired queue holds
\* pending_limit requests raises PairingLimitReached and adds nothing.
C14_PendingLimit ==
    [][/\ Len(queue') <= pcfg.limit
       /\ RegistersWhenFull =>
            /\ plast'.raised = "PairingLimitReached"
            /\ SetOf(_load_pending(queue')) \subseteq SetOf(_load_pending(queue))]_vars

\* a registration was refused with the queue at its limit
C14_Witness ==
    /\ plast.op = "register_request"
    /\ plast.raised = "PairingLimitReached"
    /\ Len(queue) = pcfg.limit

\* the step is a register_request of a user whose stored requests are all
\* expired, with room among the unexpired ones
RegistersAfterExpiry ==
    /\ plast'.op = "register_request"
    /\ plast'.user_id \in UsersOf(queue)
    /\ plast'.user_id \notin UsersOf(Unexpired(queue, ptime, pcfg.ttl))
    /\ Len(Unexpired(queue, ptime, pcfg.ttl)) < pcfg.limit

\* C15: list_pending returns no request older than code_ttl_seconds; an
\* expired request does not count against the limit and does not keep its
\* user from getting a new code on the next register_request.
C15_ExpiredRequestsDropOut ==
    [][/\ plast'.op = "list_pending" =>
            \A i \in 1..Len(plast'.listed) :
                ptime - plast'.listed[i].requested_at <= pcfg.ttl
       /\ RegistersAfterExpiry =>
            /\ plast'.raised = "none" /\ plast'.created
            /\ plast'.request[1].requested_at = ptime
            /\ plast'.request[1].user_id = plast'.user_id
       /\ (plast'.op = "register_request"
           /\ Len(Unexpired(queue, ptime, pcfg.ttl)) < pcfg.limit) =>
            plast'.raised = "none"]_vars

\* a user got a new code in a call that purged an expired request
C15_Witness ==
    /\ plast.op = "register_request"
    /\ plast.created
    /\ plast.purged > 0
    /\ Len(queue) = pcfg.limit

\* the entries of users other than user_id
Others(entries, user_id) == SelectSeq(entries, LAMBDA entry : entry.user_id # user_id)

\* C16: after approve(code) of a pending request of user u, is_allowed(u) is
\* true and the request is no longer pending; every other pending request and
\* every other allowlist entry is unchanged, and the allowlist never holds two
\* entries of one user.
C16_ApproveMovesToAllowlist ==
    [][/\ (plast'.op = "approve" /\ plast'.raised = "none") =>
            /\ plast'.request[1] \in SetOf(_load_pending(queue))
            /\ is_allowed(allowlist', plast'.request[1].user_id)
            /\ plast'.request[1] \notin SetOf(_load_pending(queue'))
            /\ _load_pending(queue')
                   = SelectSeq(_load_pending(queue), LAMBDA req : req # plast'.request[1])
            /\ Others(allowlist', plast'.request[1].user_id)
                   = Others(allowlist, plast'.request[1].user_id)
            /\ SetOf(allowlist) \subseteq SetOf(allowlist')
       /\ UniqueUsers(allowlist')]_vars

\* a request was approved while another one stayed pending, for a user who
\* was on the allowlist already
C16_Witness ==
    /\ plast.op = "approve" /\ plast.raised = "none"
    /\ queue # <<>>
    /\ is_allowed(allowlist, plast.request[1].user_id)
    /\ \E i \in 1..Len(allowlist) :
        /\ allowlist[i].user_id = plast.request[1].user_id
        /\ allowlist[i].approved_at < ptime

\* C17: after reject(code) of a pending request the request is no longer
\* pending and the allowlist is unchanged.
C17_RejectKeepsAllowlist ==
    [][(plast'.op = "reject" /\ plast'.raised = "none") =>
            /\ plast'.request[1] \in SetOf(_load_pending(queue))
            /\ plast'.request[1] \notin SetOf(_load_pending(queue'))
            /\ _load_pending(queue')
                   = SelectSeq(_load_pending(queue), LAMBDA req : req # plast'.request[1])
            /\ allowlist' = allowlist]_vars

\* a request was rejected
C17_Witness ==
    /\ plast.op = "reject" /\ plast.raised = "none"
    /\ plast.request[1] \notin SetOf(_load_pending(queue))
    /\ ~is_allowed(allowlist, plast.request[1].user_id)

\* the typed code equals, letter case aside, the code of a stored request
CodeIsPending(file, code) ==
    \E i \in 1..Len(file) : Lower(file[i].code) = Lower(code)

\* C18: approve or reject with a code that matches no pending request, letter
\* case aside, raises PairingCodeNotFound and leaves the queue and the
\* allowlist unchanged; a code that matches one is accepted.
C18_UnknownCodeRaises ==
    [][plast'.op \in {"approve", "reject"} =>
            /\ ~CodeIsPending(queue, plast'.code) =>
                   /\ plast'.raised = "PairingCodeNotFound"
                   /\ queue' = queue
                   /\ allowlist' = allowlist
            /\ CodeIsPending(queue, plast'.code) => plast'.raised = "none"]_vars

\* an unknown code was refused while a request was pending
C18_Witness ==
    /\ plast.op \in {"approve", "reject"}
    /\ plast.raised = "PairingCodeNotFound"
    /\ queue # <<>>

\* a code typed in lower case was accepted
C18_WitnessLowerCase ==
    /\ plast.op \in {"approve", "reject"}
    /\ plast.raised = "none"
    /\ plast.code # plast.request[1].code

-----------------------------------------------------------------------------
(* Intent and limit helpers *)

\* the aliases the contract names, in lower case
ClaimedStoreAliases == {<<"s", "t", "o", "r", "e">>, <<"s", "a", "v", "e">>, <<"a", "d", "d">>, <<"s", "t", "o", "r", "e", "_", "r", "e", "s", "o", "u", "r", "c", "e">>}
ClaimedFetchAliases ==
    {<<"f", "e", "t", "c", "h">>, <<"r", "e", "t", "r", "i", "e", "v", "e">>, <<"s", "e", "a", "r", "c", "h">>, <<"r", "e", "c", "o", "m", "m", "e", "n", "d">>, <<"f", "e", "t", "c", "h", "_", "r", "e", "s", "o", "u", "r", "c", "e">>}

\* C19: _normalise_intent maps, letter case aside, the store aliases to
\* store_resource, the fetch aliases (recommend among them) to fetch_resource,
\* and every other input to chat; its result is always a route key.
C19_IntentAliases ==
    helper.fn = "_normalise_intent" =>
        /\ helper.out \in RouteKeys
        /\ helper.arg.kind # "str" => helper.out = ChatKey
        /\ helper.arg.kind = "str" =>
            /\ Strip(Lower(helper.arg.str)) \in ClaimedStoreAliases
                   => helper.out = StoreResourceKey
            /\ Strip(Lower(helper.arg.str)) \in ClaimedFetchAliases
                   => helper.out = FetchResourceKey
            /\ Strip(Lower(helper.arg.str)) \notin ClaimedStoreAliases \cup ClaimedFetchAliases
                   => helper.out = ChatKey

\* the integer a limit text denotes, when it is a digit string
DenotedLimit(value) ==
    IF value.kind = "int" THEN value.int ELSE ParseInt(Strip(value.str))

\* C20: _coerce_limit returns an integer between 1 and 25 for every input:
\* positive integers and digit strings capped at 25, the default 5 otherwise.
C20_LimitWithinBounds ==
    helper.fn = "_coerce_limit" =>
        /\ helper.out \in 1..MaxAgentLimit
        /\ (helper.arg.kind = "int" /\ helper.arg.int > 0)
               => helper.out = Min(helper.arg.int, MaxAgentLimit)
        /\ (helper.arg.kind = "str" /\ IsDigits(Strip(helper.arg.str)))
               => helper.out = Min(DenotedLimit(helper.arg), MaxAgentLimit)
        /\ ~((helper.arg.kind = "int" /\ helper.arg.int > 0)
             \/ (helper.arg.kind = "str" /\ IsDigits(Strip(helper.arg.str))))
               => helper.out = DefaultLimit

-----------------------------------------------------------------------------
(* Pure helpers of the normaliser, the expander and the summariser *)

\* an element as the claim reads it: trimmed, None counting as empty
Trimmed(value) == Strip(IF value = None THEN <<>> ELSE value)

NonBlank(text) == text # <<>>

\* C21: normalise_string_list returns the input elements trimmed, those that
\* are empty after trimming dropped, in their original order; None and the
\* empty list give the empty list; a second application changes nothing.
C21_NormaliseStringList ==
    helper.fn = "normalise_string_list" =>
        /\ helper.out =
              (IF helper.arg = NoneList THEN <<>>
               ELSE SelectSeq([i \in 1..Len(helper.arg) |-> Trimmed(helper.arg[i])],
                              NonBlank))
        /\ helper.arg \in {NoneList, <<>>} => helper.out = <<>>
        /\ normalise_string_list(helper.out) = helper.out

\* a list with a padded element, a blank one and None between kept elements
C21_Witness ==
    /\ helper.fn = "normalise_string_list"
    /\ helper.arg = <<<<" ", "a", "i", " ">>, None, <<"a", "g", "e", "n", "t", "s">>>>
    /\ helper.out = <<<<"a", "i">>, <<"a", "g", "e", "n", "t", "s">>>>

IsExpand == helper.fn = "_expand_keywords"

\* the forms the rules derive from a lowercased keyword, the keyword included
Forms(lowered) ==
    {lowered}
    \cup (IF Len(lowered) > 3 /\ EndsWith(lowered, <<"i", "e", "s">>)
          THEN {DropLast(lowered, 3) \o <<"y">>} ELSE {})
    \cup (IF Len(lowered) > 3 /\ EndsWith(lowered, <<"e", "s">>)
          THEN {DropLast(lowered, 2)} ELSE {})
    \cup (IF Len(lowered) > 3 /\ EndsWith(lowered, <<"s">>)
          THEN {DropLast(lowered, 1)} ELSE {})
    \cup (IF "-" \in Range(lowered) THEN {HyphenToSpace(lowered)} ELSE {})

\* the term the query adds, as add() normalises it
QueryTerms(query) ==
    IF Truthy(query) /\ Strip(query) # <<>> THEN {Lower(Strip(query))} ELSE {}

\* C22 as stated: the terms of the output, the query's aside, are exactly the
\* lowercased keywords and the forms derived from them: "ies" to "y", "es"
\* removed, "s" removed, each rule on its own, for keywords longer than 3
\* characters only, and the space-joined variant of a keyword with a hyphen.
C22_DerivedForms ==
    IsExpand =>
        Range(helper.out) \cup QueryTerms(helper.query)
          = UNION {Forms(Lower(helper.keywords[i])) : i \in 1..Len(helper.keywords)}
            \cup QueryTerms(helper.query)

\* C22, amended: the rules apply to the trimmed, lowercased keyword and its
\* length; every form enters the output trimmed, and a form that is blank
\* after trimming contributes nothing.
C22_DerivedFormsTrimmed ==
    IsExpand =>
        Range(helper.out) \cup QueryTerms(helper.query)
          = UNION {{Strip(f) : f \in Forms(Lower(Strip(helper.keywords[i])))} \ {<<>>} :
                      i \in 1..Len(helper.keywords)}
            \cup QueryTerms(helper.query)

\* all three suffix rules fire on one keyword, and a hyphen variant is trimmed
C22_Witness ==
    /\ IsExpand
    /\ helper.keywords = <<<<"t", "i", "e", "s">>, <<"a", "-">>>>
    /\ helper.query = None
    /\ helper.out = <<<<"t", "i", "e", "s">>, <<"t", "y">>, <<"t", "i">>, <<"t", "i", "e">>, <<"a", "-">>, <<"a">>>>

IsPrefix(s, t) == Len(s) <= Len(t) /\ SubSeq(t, 1, Len(s)) = s

\* duplicate-free, lowercase, non-empty, and in order of first insertion: the
\* output for any leading part of the keywords is a leading part of the output
WellFormedTerms ==
    /\ \A i, j \in 1..Len(helper.out) : i # j => helper.out[i] # helper.out[j]
    /\ \A i \in 1..Len(helper.out) :
          helper.out[i] # <<>> /\ Lower(helper.out[i]) = helper.out[i]
    /\ \A n \in 0..Len(helper.keywords) :
          IsPrefix(_expand_keywords(SubSeq(helper.keywords, 1, n), None), helper.out)

\* C23 as stated: the output is duplicate-free, lowercase, non-empty and in
\* order of first insertion; a non-empty query that is not already present is
\* its last term, lowercased; with no keywords the output is the one-element
\* list of the lowercased query.
C23_QueryLast ==
    IsExpand =>
        /\ WellFormedTerms
        /\ (Truthy(helper.query)
            /\ Lower(helper.query) \notin Range(_expand_keywords(helper.keywords, None)))
           => (helper.out # <<>> /\ helper.out[Len(helper.out)] = Lower(helper.query))
        /\ (helper.keywords = <<>> /\ Truthy(helper.query))
           => helper.out = <<Lower(helper.query)>>

\* C23, amended: the query counts trimmed; a query that is blank after
\* trimming adds nothing, and one already present leaves the output as the
\* keywords gave it.
C23_TrimmedQueryLast ==
    IsExpand =>
        /\ WellFormedTerms
        /\ \A q \in QueryTerms(helper.query) :
              IF q \in Range(_expand_keywords(helper.keywords, None))
              THEN helper.out = _expand_keywords(helper.keywords, None)
              ELSE helper.out = Append(_expand_keywords(helper.keywords, None), q)
        /\ QueryTerms(helper.query) = {}
           => helper.out = _expand_keywords(helper.keywords, None)
        /\ helper.keywords = <<>>
           => Range(helper.out) = QueryTerms(helper.query) /\ Len(helper.out) <= 1

\* a padded query whose trimmed form a keyword already derived
C23_Witness ==
    /\ IsExpand
    /\ helper.keywords = <<<<"t", "i", "e", "s">>>>
    /\ helper.query = <<" ", "T", "i", "e", " ">>
    /\ helper.out = <<<<"t", "i", "e", "s">>, <<"t", "y">>, <<"t", "i">>, <<"t", "i", "e">>>>

\* a padded query with no keywords enters trimmed and lowercased
C23_WitnessNoKeywords ==
    /\ IsExpand
    /\ helper.keywords = <<>>
    /\ helper.query = <<" ", "T", "i", "e", " ">>
    /\ helper.out = <<<<"t", "i", "e">>>>

IsSummary == helper.fn = "_summarise_semantic_error"

HasSslIndicator(reason) ==
    Contains(Lower(reason), SslHandshake) \/ Contains(Lower(reason), Code525)

\* C24: a reason holding "ssl handshake" or "code 525" in any case gives the
\* sentence that names the SSL handshake; any other non-empty reason gives a
\* sentence holding the reason; every sentence says keyword matches are
\* shown, and the reason it embeds has at most 200 characters.
C24_SummaryNamesReason ==
    IsSummary =>
        /\ HasSslIndicator(helper.reason) =>
              helper.out = SslSentence /\ Contains(helper.out, <<"S", "S", "L", " ", "h", "a", "n", "d", "s", "h", "a", "k", "e">>)
        /\ (~HasSslIndicator(helper.reason) /\ helper.reason # <<>>) =>
              /\ Contains(helper.out, helper.reason)
              /\ Len(helper.out) <= MaxReasonLen + Len(ReasonOpen) + Len(ReasonClose)
        /\ Contains(helper.out, <<"k", "e", "y", "w", "o", "r", "d", " ", "m", "a", "t", "c", "h", "e", "s">>)
        /\ Len(helper.reason) <= MaxReasonLen

\* a message one character over the cap is embedded cut to the cap
C24_Witness ==
    /\ IsSummary
    /\ helper.arg.text = Filler(MaxReasonLen + 1)
    /\ helper.reason = Filler(MaxReasonLen - 1) \o Ellipsis
    /\ helper.out = ReasonOpen \o helper.reason \o ReasonClose

\* an indicator in capitals, split by a line break, is recognised
C24_WitnessSsl ==
    /\ IsSummary
    /\ helper.arg.text = <<"t", "l", "s", ":", " ", "S", "S", "L", " ", " ", "\n", " ", "H", "a", "n", "d", "s", "h", "a", "k", "e">>
    /\ helper.out = SslSentence

-----------------------------------------------------------------------------
(* Claims about the phases of the hybrid search (checked under SpecSearch) *)

KeywordSelects == Count(last.trace, "select_keyword")

\* C25: the keyword select is issued exactly once, capped at twice the limit,
\* if and only if the semantic phase gathered fewer than limit distinct
\* records (no query, no vector and a failed procedure included); when the
\* semantic phase reaches limit the call returns at once with no keyword select.
C25_KeywordSelectOnce ==
    IsFetch =>
        /\ KeywordSelects = (IF Cardinality(Ids(last.semantic)) < last.limit THEN 1 ELSE 0)
        /\ KeywordSelects = 1 => last.cap = <<2 * last.limit>>
        /\ Cardinality(Ids(last.semantic)) >= last.limit =>
              /\ ~last.raised
              /\ last.cap = NoCap
              /\ last.records = last.semantic

\* the part of C25 that holds: for a positive limit
C25_KeywordSelectOncePositiveLimit ==
    (IsFetch /\ last.limit > 0) => C25_KeywordSelectOnce

\* the gateway produces no vector: provider disabled or not constructed, the
\* provider raising, or a vector of the wrong length
NoVectorProduced ==
    \/ env.provider = "none"
    \/ ~env.constructOk
    \/ last.outcome.kind = "raise"
    \/ DimensionRejected(last.outcome, env.D)

\* C26: with a non-empty query and no vector produced, no similarity
\* procedure is called, and the call returns no notice and exactly the keyword
\* results (checked where the keyword select answers).
C26_NoVectorKeywordOnly ==
    (IsFetch /\ Truthy(last.query) /\ NoVectorProduced) =>
        /\ Count(last.trace, "rpc") = 0
        /\ last.semantic = <<>>
        /\ last.fault = "none" =>
              /\ ~last.raised
              /\ last.notices = <<>>
              /\ KeywordSelects = 1
              /\ last.records = Take(AllKeywordHits, last.limit)

\* the provider returns a vector one element too long, and rows come back
C26_Witness ==
    /\ IsFetch /\ Truthy(last.query) /\ ~last.raised
    /\ last.outcome.kind = "vector" /\ DimensionRejected(last.outcome, env.D)
    /\ Count(last.trace, "embed") = 1
    /\ last.records # <<>>
    /\ last.notices = <<>>

\* the provider raises
C26_WitnessProviderError ==
    /\ IsFetch /\ Truthy(last.query) /\ ~last.raised
    /\ last.outcome.kind = "raise"
    /\ Count(last.trace, "embed") = 1
    /\ last.records # <<>>

TagValues == normalise_string_list(last.filter.tags)
CategoryValues == normalise_string_list(last.filter.categories)

\* a record's single stored value equals the filter value, letter case aside
SameValue(values, wanted) == values # <<>> /\ Lower(values[1]) = Lower(wanted)

\* the keyword phase looks at the first tag and the first category only, and
\* the similarity procedure is sent both lists in full
FirstFilterOnly ==
    /\ (KeywordSelects = 1 /\ ~last.raised) =>
          last.keyword = _keyword_search(store, Take(TagValues, 1), Take(CategoryValues, 1),
                                         last.query, last.keywords, 2 * last.limit)
    /\ Count(last.trace, "rpc") = 1 =>
          /\ last.params.filter_tags = (IF TagValues # <<>> THEN TagValues ELSE Missing)
          /\ last.params.filter_categories =
                (IF CategoryValues # <<>> THEN CategoryValues ELSE Missing)

\* C30: the keyword results are narrowed by an equality-style filter on the
\* first normalised tag and the first normalised category only; further tags
\* and categories do not affect them, while the semantic phase receives the
\* full lists.
C30_FirstTagEquality ==
    IsFetch =>
        /\ FirstFilterOnly
        /\ \A i \in 1..Len(last.keyword) :
              /\ TagValues # <<>> => SameValue(last.keyword[i].tags, TagValues[1])
              /\ CategoryValues # <<>> =>
                    SameValue(last.keyword[i].categories, CategoryValues[1])

\* the parts of C30 that hold
C30_FirstFilterOnly == IsFetch => FirstFilterOnly

-----------------------------------------------------------------------------
(* Claims about the paths of the upsert (checked under Spec) *)

\* the insert returned without an echoed row
InsertedSilently == Inserted /\ ~last.mode.echo

\* the rows of the store after the call that the fallback select filters for
RequeryMatches ==
    IF Truthy(last.payload.url)
    THEN {r \in RowsOf(store) : r.url = last.payload.url}
    ELSE {r \in RowsOf(store) : r.title = last.payload.title}

\* the fallback select answered with a row
RequeryAnswered == last.mode.fault # "unseen" /\ RequeryMatches # {}

\* the record built from the payload alone; id 0 stands for None
FromPayload ==
    [id |-> 0, title |-> last.payload.title, url |-> last.payload.url,
     notes |-> last.payload.notes, tags |-> normalise_string_list(last.payload.tags),
     categories |-> normalise_string_list(last.payload.categories),
     created_at |-> clock - 1]

\* C27: after an insert that echoes no row, add_resource selects the most
\* recent row by url when the payload has one and by title otherwise, and
\* returns it; only when that select yields no row does it return a record
\* with id None built from the payload; no other call returns id None.
C27_RequeryThenSynthesize ==
    /\ InsertedSilently =>
          /\ Count(last.trace, "requery_url") = (IF Truthy(last.payload.url) THEN 1 ELSE 0)
          /\ Count(last.trace, "requery_title") = (IF Truthy(last.payload.url) THEN 0 ELSE 1)
          /\ RequeryAnswered => last.record = <<row_to_record(Newest(RequeryMatches))>>
          /\ ~RequeryAnswered => last.record = <<FromPayload>>
    /\ (IsAdd /\ ~last.raised /\ last.record[1].id = 0) =>
          (InsertedSilently /\ ~RequeryAnswered)
    /\ (IsAdd /\ ~last.raised /\ ~InsertedSilently) =>
          /\ Count(last.trace, "requery_url") = 0
          /\ Count(last.trace, "requery_title") = 0

\* the fallback select by url returns the row just inserted
C27_Witness ==
    /\ InsertedSilently
    /\ Truthy(last.payload.url)
    /\ Count(last.trace, "requery_url") = 1
    /\ last.record[1].id = last.written[1].id

\* the fallback select by title shows no row: the record has no id
C27_WitnessSynthesized ==
    /\ InsertedSilently
    /\ ~Truthy(last.payload.url)
    /\ Count(last.trace, "requery_title") = 1
    /\ last.record = <<FromPayload>>

\* a select of the matching phase raised
LookupRaised == IsAdd /\ last.mode.fault = "lookup" /\ last.trace # <<>>

\* C28: when a select of the matching phase raises, add_resource raises, and
\* the call makes no embedding call and no store write and leaves the store
\* as it was.
C28_LookupFailurePropagates ==
    LookupRaised =>
        /\ last.raised
        /\ Count(last.trace, "embed") = 0
        /\ Count(last.trace, "update") = 0 /\ Count(last.trace, "insert") = 0
        /\ last.written = <<>>
        /\ store = last.before
        /\ Len(last.trace) = 1 /\ last.trace[1] \in {"select_url", "select_title"}

\* the select by title raised over a store that holds a row with that title
C28_Witness ==
    /\ LookupRaised /\ last.raised
    /\ last.trace = <<"select_title">>
    /\ Candidates("title") # {}
    /\ store = last.before /\ store # <<>>

\* the call matched a row and returned
UpdatePath == IsAdd /\ ~last.raised /\ last.matched # <<>>

\* the fields the payload supplies non-empty
Supplied ==
    {f \in {"url", "notes"} : Truthy(last.payload[f])}
    \cup {f \in {"tags", "categories"} : FirstTrimmed(last.payload[f]) # <<>>}

\* the call computed a new embedding of the configured length
Recomputed ==
    /\ Count(last.trace, "embed") = 1
    /\ last.outcome.kind = "vector"
    /\ ~DimensionRejected(last.outcome, env.D)

WrittenFields == IF last.written = <<>> THEN {} ELSE last.written[1].fields

RowWithId(rows, id) == CHOOSE r \in RowsOf(rows) : r.id = id

\* C29: on the update path the write carries exactly the fields among url,
\* notes, tags and categories that the payload supplies non-empty, and
\* embeddings_vector when one was recomputed; the matched row keeps its id,
\* title and created_at and every field not written, and no other row changes.
C29_UpdateWritesSuppliedOnly ==
    UpdatePath =>
        /\ WrittenFields = Supplied \cup (IF Recomputed THEN {"embeddings_vector"} ELSE {})
        /\ Len(store) = Len(last.before)
        /\ \A i \in 1..Len(store) :
              IF last.before[i].id # last.matched[1].id
              THEN store[i] = last.before[i]
              ELSE /\ store[i].id = last.before[i].id
                   /\ store[i].title = last.before[i].title
                   /\ store[i].created_at = last.before[i].created_at
                   /\ \A f \in DOMAIN store[i] \ WrittenFields :
                         store[i][f] = last.before[i][f]
                   /\ \A f \in WrittenFields \cap {"url", "notes"} :
                         store[i][f] = last.payload[f]
                   /\ \A f \in WrittenFields \cap {"tags", "categories"} :
                         store[i][f] = FirstTrimmed(last.payload[f])[1]

\* a payload with a url and no notes updates a row that keeps its notes
C29_Witness ==
    /\ UpdatePath
    /\ last.written # <<>> /\ last.written[1].kind = "update"
    /\ "notes" \notin WrittenFields /\ "url" \in WrittenFields
    /\ Truthy(last.matched[1].notes)
    /\ RowWithId(store, last.matched[1].id).notes = last.matched[1].notes
    /\ Len(store) > 1


-----------------------------------------------------------------------------
(* Claims about the agent's fetch node (checked under SpecFetchNode) *)

IsFetchNode == last.op = "fetch_node"

EngineReturned == IsFetchNode /\ ~last.engine_raised

\* the reply that lists exactly the returned records, or says none were found
ListingOf(records) ==
    _format_retrieval_response(RecordItems(records), last.tags, last.categories,
                               last.query)

\* C31: whenever the engine call made by the fetch node returns normally, the
\* node does not raise and its reply lists exactly the returned records (or
\* says none were found), whatever notices came with them.
C31_NodeListsReturnedRecords ==
    EngineReturned => /\ ~last.raised
                      /\ last.reply = ListingOf(last.records)

\* what the node does instead: every normal return of the engine makes the
\* node raise AttributeError, and only an engine failure produces a reply
C31_NodeRaisesOnEveryReturn ==
    IsFetchNode => /\ last.raised = ~last.engine_raised
                   /\ last.engine_raised => last.reply.kind = "error"

-----------------------------------------------------------------------------
(* Claims about interleaved upserts (checked under SpecRace) *)

BothWrote == race.pc = "racing" /\ Len(race.order) = 2

\* the fields of the payload caller p supplies non-empty
RaceSupplied(p) ==
    UpdateFieldNames(race.callers[p].payload,
                     normalise_string_list(race.callers[p].payload.tags),
                     normalise_string_list(race.callers[p].payload.categories), NoVector)

\* both lookups matched the same existing row and both calls have fields to
\* write
SameRowUpdated ==
    /\ BothWrote
    /\ \A p \in Callers : /\ race.callers[p].found.row # <<>>
                          /\ RaceSupplied(p) # {}
    /\ race.callers[1].found.row[1].id = race.callers[2].found.row[1].id

\* the value caller p's update carries for a field
RaceValue(p, field) ==
    UpdateFieldValue(field, race.callers[p].payload,
                     normalise_string_list(race.callers[p].payload.tags),
                     normalise_string_list(race.callers[p].payload.categories),
                     race.callers[p].written[1].vector)

RaceFields(p) == race.callers[p].written[1].fields

RacedRow == RowWithId(store, race.callers[1].found.row[1].id)

\* C32: when two add_resource calls that matched the same row are
\* interleaved, neither write is rejected, a field both calls supply ends
\* with the value of the write applied last, and a field only one call
\* supplies ends with that call's value.
C32_LastWriteWins ==
    SameRowUpdated =>
        /\ \A p \in Callers : /\ ~race.callers[p].raised
                              /\ race.callers[p].written # <<>>
                              /\ RaceSupplied(p) \subseteq RaceFields(p)
        /\ \A f \in RaceFields(race.order[2]) : RacedRow[f] = RaceValue(race.order[2], f)
        /\ \A f \in RaceFields(race.order[1]) \ RaceFields(race.order[2]) :
               RacedRow[f] = RaceValue(race.order[1], f)

\* the two calls supply different notes and the second caller's write came last
C32_Witness ==
    /\ SameRowUpdated
    /\ race.order = <<1, 2>>
    /\ race.callers[1].payload.notes = <<"x">>
    /\ race.callers[2].payload.notes = <<"y">>
    /\ RacedRow.notes = <<"y">>
    /\ race.callers[1].found = race.callers[2].found

\* the same two calls with the first caller's write last, and a field (tags)
\* that only the second caller supplies
C32_WitnessOtherOrder ==
    /\ SameRowUpdated
    /\ race.order = <<2, 1>>
    /\ race.callers[1].payload.notes = <<"x">>
    /\ race.callers[2].payload.notes = <<"y">>
    /\ RacedRow.notes = <<"x">>
    /\ RacedRow.tags = <<"g">>
    /\ race.callers[1].found = race.callers[2].found

-----------------------------------------------------------------------------
(* Claims about stores built by sequential upserts (checked under         *)
(* SpecSequential)                                                         *)

\* the embeddable text of a stored row
RowText(row) == _compose_embedding_text(Str(row.title), RowGet(row.notes), RowGet(row.url))

\* C33: in every store reached from the empty store by sequential
\* add_resource calls, a row whose embeddings_vector is non-null holds the
\* embedding of the text composed from its own current title, notes and url.
C33_VectorMatchesRow ==
    \A i \in 1..Len(store) :
        store[i].embeddings_vector.some =>
            store[i].embeddings_vector = Vector(env.D, RowText(store[i]))

\* what holds instead: a stored vector is the embedding of the text composed
\* from the payload of the call that wrote it
C33_VectorMatchesWritingPayload ==
    (IsAdd /\ last.written # <<>> /\ last.written[1].vector.some) =>
        RowWithId(store, last.written[1].id).embeddings_vector
            = Vector(env.D, _compose_embedding_text(last.payload.title,
                                                    last.payload.notes,
                                                    last.payload.url))

UniqueTitles ==
    \A i, j \in 1..Len(store) : i # j => store[i].title # store[j].title

UniqueUrls ==
    \A i, j \in 1..Len(store) :
        (i # j /\ store[i].url # None) => store[i].url # store[j].url

C38_WitnessUrlTakesPrecedence ==
    /\ IsAdd
    /\ Len(store) = 2
    /\ calls = MaxAdds
    /\ last.matched # <<>>
    /\ last.matched[1].title # last.payload.title

-----------------------------------------------------------------------------
(* Claims about the backfill script (checked under SpecBackfill) *)

\* the script has left its while loop, by the break or by an exception
BackfillEnded == bf.pc \in {"done", "failed"}

\* C34: backfill_embeddings eventually terminates for every store content
\* and every provider behaviour, also when the provider yields no usable
\* vector for a row whose embeddings_vector is null.
C34_BackfillTerminates == <>BackfillEnded

\* rows that hold a vector now and held none when the script started
RowsFilled ==
    {i \in 1..Len(store) :
        /\ store[i].embeddings_vector.some
        /\ ~BaseRow(i, env.D).embeddings_vector.some}

\* the count the script holds is the number of rows it updated, at every
\* point of the run and so at the break
C34_CountsUpdatedRows ==
    bf.pc \in {"loop", "done"} => bf.updated = Cardinality(RowsFilled)

-----------------------------------------------------------------------------
(* Claims about approval and the time-to-live (checked under SpecPairing) *)

Approved == plast.op = "approve" /\ plast.raised = "none"

\* C37: approve(code) puts a user on the allowlist only if the matching
\* request is still within its time-to-live at the time of approval.
C37_ApproveWithinTtl ==
    Approved => plast.request[1].requested_at >= ptime - pcfg.ttl


-----------------------------------------------------------------------------
(* Claims about the embedding gateway's provider (checked under Spec) *)

\* the provider the settings select can be constructed
Constructible == env.provider \in {"openai", "ollama"} /\ env.constructOk

\* this step is an engine call that reaches the gateway with a non-blank text
\* while no provider has been selected yet
FirstUse ==
    /\ svc = "uncached"
    /\ \/ last'.op = "fetch" /\ Truthy(last'.query)
       \/ last'.op = "add" /\ "insert" \in Range(last'.trace)

\* the provider calls the step's engine call made
ProviderCalls(observed) ==
    IF observed.op \in {"add", "fetch"} THEN Count(observed.trace, "embed") ELSE 0

\* C39: the provider is selected at most once per process.  The first use
\* settles it, also when construction fails; from then on the selection never
\* changes, so a failed construction is never attempted again and every
\* later call returns no vector, and a constructed provider is the one every
\* later call uses.
C39_ProviderSelectedOnce ==
    [][/\ FirstUse => svc' = IF Constructible THEN "ready" ELSE "absent"
       /\ svc # "uncached" => svc' = svc
       /\ svc = "absent" =>
            /\ ProviderCalls(last') = 0
            /\ last'.op = "add" /\ ~last'.raised /\ last'.written # <<>>
                   => ~last'.written[1].vector.some
            /\ last'.op = "backfill_row" /\ last'.written # <<>> => FALSE
       /\ (svc = "ready" /\ last'.op = "fetch" /\ Truthy(last'.query))
            => ProviderCalls(last') = 1]_vars

\* a search with a query, made after the construction of the provider failed
C39_Witness ==
    /\ IsFetch
    /\ Truthy(last.query)
    /\ last.cached = "absent"
    /\ env.provider = "ollama"
    /\ ~env.constructOk
    /\ svc = "absent"
    /\ "embed" \notin Range(last.trace)

\* a search with a query, made after the provider was constructed
C39_WitnessConstructed ==
    /\ IsFetch
    /\ Truthy(last.query)
    /\ last.cached = "ready"
    /\ svc = "ready"
    /\ "embed" \in Range(last.trace)

-----------------------------------------------------------------------------
(* Claims about the Telegram bot (checked under SpecBot) *)

\* this step hands a message of user u to the agent graph
InvokesAgentFor(u) ==
    /\ bot'.last.handler = "respond"
    /\ bot'.last.outcome = "invoked"
    /\ bot'.last.sender = u

\* this step handles a message of a sender with an id who is not on the
\* allowlist
UnpairedMessage ==
    /\ bot'.last.handler = "message"
    /\ bot'.last.sender # 0
    /\ ~is_allowed(allowlist, bot'.last.sender)

\* C35: the agent graph is invoked for a message only if its sender was on
\* the allowlist when the handler read it; a message of a sender who is not
\* on it only creates or reuses a pairing request; revoke(u) takes u off the
\* allowlist and only the admin's approval of a pending request of u, made
\* while u is off it, puts u back.
C35_AgentOnlyForAllowed ==
    [][/\ \A m \in bot'.typing \ bot.typing : is_allowed(allowlist, m.user)
       /\ \A u \in Users :
            InvokesAgentFor(u) => \E m \in bot.typing \ bot'.typing : m.user = u
       /\ UnpairedMessage =>
            /\ bot'.typing = bot.typing
            /\ allowlist' = allowlist
            /\ bot'.last.outcome \in {"dm_only", "plain_text", "pending_new",
                                      "pending_reused", "queue_full"}
            /\ \A i \in 1..Len(queue') :
                 \/ queue'[i] \in Range(queue)
                 \/ queue'[i] \in {from_dict(request) : request \in Range(queue)}
                 \/ queue'[i].user_id = bot'.last.sender
       /\ (bot'.last.handler = "pairing" /\ bot'.last.outcome = "revoked")
            => ~is_allowed(allowlist', bot'.last.subject)
       /\ \A u \in Users :
            (~is_allowed(allowlist, u) /\ is_allowed(allowlist', u)) =>
                /\ bot'.last.handler = "pairing"
                /\ bot'.last.outcome = "approved"
                /\ bot'.last.sender = bot.admin
                /\ bot'.last.subject = u
                /\ HasUser(queue, u)
       /\ \A u \in Users : is_allowed(allowlist', u) => ~HasUser(queue', u)]_vars

\* the agent answered a user who is on the allowlist
C35_Witness ==
    /\ bot.last.handler = "respond"
    /\ bot.last.outcome = "invoked"
    /\ is_allowed(allowlist, bot.last.sender)

\* a user who is off the allowlist and has messaged again holds a pending
\* request, while the admin has revoked somebody before
C35_WitnessUnpaired ==
    /\ bot.last.handler = "message"
    /\ bot.last.outcome = "pending_reused"
    /\ ~is_allowed(allowlist, bot.last.sender)
    /\ HasUser(queue, bot.last.sender)

\* the agent answers a message that passed the allowlist test before its
\* sender was revoked
C35_WitnessRevokedInFlight ==
    /\ bot.last.handler = "respond"
    /\ bot.last.outcome = "invoked"
    /\ ~is_allowed(allowlist, bot.last.sender)

\* C36: /pairing changes or reveals pairing state only for the admin: for
\* every other sender, one without a readable id included, the pending queue
\* and the allowlist stay as they are and nothing of them is shown.
C36_PairingCommandAdminOnly ==
    [][(bot'.last.handler = "pairing" /\ bot'.last.sender # bot.admin) =>
          /\ queue' = queue
          /\ allowlist' = allowlist
          /\ bot'.last.outcome = "only_admins"
          /\ ~bot'.last.revealed]_vars

\* a sender without a readable id typed /pairing while a request was pending
\* and a user was on the allowlist
C36_Witness ==
    /\ bot.last.handler = "pairing"
    /\ bot.last.sender = 0
    /\ queue # <<>>
    /\ allowlist # <<>>

\* a user who is not the admin typed /pairing while a request was pending
C36_WitnessOtherUser ==
    /\ bot.last.handler = "pairing"
    /\ bot.last.sender \in Users \ {bot.admin}
    /\ queue # <<>>

\* the admin's /pairing does change the allowlist
C36_WitnessAdmin ==
    /\ bot.last.handler = "pairing"
    /\ bot.last.sender = bot.admin
    /\ bot.last.outcome = "approved"
    /\ is_allowed(allowlist, bot.last.subject)

-----------------------------------------------------------------------------
(* Claims about the WhatsApp bridge (checked under SpecWebhook) *)

\* the gates in the order of the claim, each TRUE when the request passes it
GatesPassed(cfg, header, payload) ==
    <<~Truthy(cfg.secret) \/ header = cfg.secret,
      ~(Truthy(payload.session) /\ Truthy(cfg.session))
        \/ payload.session = cfg.session,
      payload.event \in {"onMessage", "onAnyMessage"},
      ~payload.data.fromMe,
      ~payload.data.isGroupMsg,
      \/ Truthy(payload.data.body) /\ Strip(payload.data.body) # <<>>
      \/ ~Truthy(payload.data.body) /\ Truthy(payload.data.text)
            /\ Strip(payload.data.text) # <<>> >>

GateReasons ==
    <<"invalid_secret", "session_mismatch", "unsupported_event", "self_message",
      "group_message", "empty_content">>

Sends(called) == Cardinality({i \in 1..Len(called) : called[i] = "send_text"})

\* C40: the webhook invokes the agent graph only for a request that passes
\* every gate (secret, session, event, fromMe, group, non-empty text), a
\* request failing a gate is answered with the reason of the first gate it
\* fails, and send_text is called at most once per request and only after
\* the agent invocation returned without error.
C40_WebhookGates ==
    web.op = "webhook" =>
        /\ "ainvoke" \in Range(web.reply.called) =>
              \A i \in 1..6 : GatesPassed(web.cfg, web.header, web.payload)[i]
        /\ \A i \in 1..6 :
              (/\ ~GatesPassed(web.cfg, web.header, web.payload)[i]
               /\ \A j \in 1..(i - 1) : GatesPassed(web.cfg, web.header, web.payload)[j])
              => web.reply.reason = GateReasons[i] /\ web.reply.called = <<>>
        /\ Sends(web.reply.called) <= 1
        /\ "send_text" \in Range(web.reply.called) =>
              /\ web.reply.called = <<"ainvoke", "send_text">>
              /\ web.agent \in AgentOutcomes \ {"raises"}
        /\ web.agent = "raises" => web.reply.called = <<"ainvoke">>

\* a request with the right secret, session, event and text was answered
C40_Witness ==
    /\ web.op = "webhook"
    /\ Truthy(web.cfg.secret)
    /\ web.payload.session = web.cfg.session
    /\ web.reply.called = <<"ainvoke", "send_text">>
    /\ web.reply.status = "ok"

\* the agent raised for a request that passed the gates, and nothing was sent
C40_WitnessAgentFailure ==
    /\ web.op = "webhook"
    /\ web.agent = "raises"
    /\ web.reply.reason = "agent_failure"

\* a request failing several gates is answered by the first of them
C40_WitnessFirstGate ==
    /\ web.op = "webhook"
    /\ web.reply.reason = "session_mismatch"
    /\ web.payload.event = "onAck"
    /\ web.payload.data.fromMe
====
